---- MODULE Spec2Model ----
(***************************************************************************)
(* Gas Town orchestration core: worker health engine, refinery (merge      *)
(* queue), sling (dispatch), integration land and projection sync daemon,  *)
(* modelled as state machines over the beads work store, the rig's git     *)
(* repository and the projection store.                                    *)
(*                                                                         *)
(* Every external command whose error the code inspects (a bd or git call, *)
(* a test run) is an input of the action that issues it: the action is     *)
(* taken once for each outcome the command can have.                       *)
(***************************************************************************)
EXTENDS Bags, Integers, Sequences, FiniteSets, TLC

VARIABLES
    now,        \* wall clock, in abstract time units
    lastOp,     \* name of the operation that ran last
    agents,     \* work store: agent beads (typed fields of the description)
    issues,     \* work store: work items (status, assignee)
    results,    \* what the last operation returned, when it was CheckWorkerHealth:
                \* the error of the call and one HealthCheckResult per agent
    engine,     \* health engine: the tick in progress (the agents it listed,
                \* its clock reading, the agents still to check, the rows so far)
    mrs,        \* work store: merge-request beads (status, typed MR fields)
    epic,       \* work store: status of the epic that owns the integration branch
    gitLocal,   \* rig repository: first-parent history of each target branch
    gitOrigin,  \* origin: first-parent history of each target branch
    mqResult,   \* what the last operation returned, when it was a merge-queue one
    sling,      \* the gt sling invocations: where each one is in runSling
    hookBead,   \* work store: hook_bead field of each target's agent bead
    convoys,    \* work store: the work items tracked by a convoy
    events,     \* work store: the events table, in id order
    activities, \* projection store: the activities table, a bag of rows
    lastEventID,        \* projection daemon: id of the last event synced incrementally
    incrementalEnabled, \* projection daemon: a full task sync has completed
    syncErr,    \* what the last projection sync returned ("": nil)
    beadsIssues,    \* work store: the issues table as the projection daemon reads it
    dirtyIssues,    \* work store: the dirty_issues table
    tasks,          \* projection store: the tasks table
    lastTaskUpdate, \* projection daemon: largest updated_at synced incrementally
    stateFile,      \* the daemon's state file (<<>>: no file)
    syncTick,       \* projection daemon: the incremental task sync in progress
    syncLog,        \* the fallbacks to a full sync that the last tick has logged
    daemons,    \* the projection-daemon run processes that are alive (their pids)
    pidFile,    \* daemon/projection-sync.pid: the pid it holds (NoPid: no file)
    starts,     \* the gt projection-daemon start invocations: where each one is
    loops,      \* the supervisory loops: where each Run is, its context, its ticker
    polecats,   \* the polecats of the rig: state, issue, session, worktree, agent bead
    cycle,      \* what the last lifecycle pass did to each polecat
    mailbox,    \* work store: the messages delivered, per recipient
    notices,    \* the notifications shown in the recipients' sessions
    sendResult, \* what the last mail Send returned and whether it tried to notify
    validation, \* the last call of a validator of package beads: arguments, error
    molecules,  \* work store: the molecule beads, as the number of beads per title
    seedResult, \* what the last SeedBuiltinMolecules returned
    engineers   \* the refinery instances of the rig: where each one is in processOnce

healthVars == <<agents, issues, results, engine>>
mqVars == <<mrs, epic, gitLocal, gitOrigin, mqResult>>
slingVars == <<sling, hookBead, convoys>>
projVars == <<events, activities, lastEventID, incrementalEnabled, syncErr>>
taskVars == <<beadsIssues, dirtyIssues, tasks, lastTaskUpdate, stateFile, syncTick, syncLog>>
procVars == <<daemons, pidFile, starts>>
loopVars == <<loops>>
lifeVars == <<polecats, cycle>>
mailVars == <<mailbox, notices, sendResult>>
beadsVars == <<validation, molecules, seedResult>>
raceVars == <<engineers>>
restVars == <<beadsVars, raceVars>>
townVars == <<procVars, loopVars, lifeVars, mailVars, restVars>>

(***************************************************************************)
(* Bounds of the model.                                                    *)
(***************************************************************************)
MaxNow == 4
MaxTimeout == 2

AgentIds == {"a1", "a2"}
\* b.List returns the agent beads in a fixed order
AgentOrder == <<"a1", "a2">>
WorkIds == {"w1"}

\* a typed field that is absent ("") or that does not parse
NoValue == -1
BadValue == -2

HealthHealthy == "healthy"
HealthStale == "stale"
HealthDead == "dead"
HealthStates == {HealthHealthy, HealthStale, HealthDead}
LifecycleCrashed == "crashed"

(***************************************************************************)
(* Worker health engine (package witness).                                 *)
(***************************************************************************)

\* Health class of a heartbeat age: the if/else chain of CheckWorkerHealth.
ClassifyLate(timeSince, timeout) ==
    IF timeSince <= timeout THEN HealthHealthy
    ELSE IF timeSince <= 2 * timeout THEN HealthStale
    ELSE HealthDead

ClassifyForgiving(timeSince, timeout) ==
    IF timeSince < 2 * timeout THEN HealthHealthy ELSE HealthDead

Classify(timeSince, timeout) ==
    IF timeSince < timeout THEN HealthHealthy
    ELSE IF timeSince < 2 * timeout THEN HealthStale
    ELSE HealthDead

\* The store operations of one agent's pass run one after the other and the
\* pass stops at the first that fails, so one pass has at most one fault.
Faults == {"none", "update_agent", "show_work", "update_work"}

\* reassignOrphanWork: the work store after the call and the error returned.
reassignOrphanWork(iss, workID, fault) ==
    IF fault = "show_work"
    THEN [issues |-> iss, err |-> "getting work item"]
    ELSE IF workID \notin DOMAIN iss
    THEN [issues |-> iss, err |-> "work item not found"]
    ELSE IF iss[workID].status # "in_progress"
    THEN [issues |-> iss, err |-> ""]
    ELSE IF fault = "update_work"
    THEN [issues |-> iss, err |-> "updating work item"]
    ELSE [issues |-> [iss EXCEPT ![workID] = [status |-> "open", assignee |-> ""]],
          err |-> ""]

SkippedRow == [prev |-> "", cur |-> "", action |-> "skipped", error |-> ""]
ErrorRow(e) == [prev |-> "", cur |-> "", action |-> "", error |-> e]

\* The fields the engine writes when the health has changed: the new health
\* and, on the transition to dead, the crashed lifecycle state.
WithHealthOnly(f, newHealth) == [f EXCEPT !.health = newHealth]

WithHealth(f, newHealth) ==
    [f EXCEPT !.health = newHealth,
              !.lifecycle_state = IF newHealth = HealthDead THEN LifecycleCrashed ELSE @]

\* One iteration of the loop over the agents in CheckWorkerHealth.
\* st = [agents, issues, rows]; the result is the next st.
CheckOneAgent(st, a, fault, t) ==
    LET f == st.agents[a] IN
    IF f.status # "open" THEN st
    ELSE IF f.last_heartbeat = NoValue \/ f.heartbeat_timeout = NoValue THEN st
    ELSE IF f.last_heartbeat = BadValue
    THEN [st EXCEPT !.rows[a] = ErrorRow("parsing last_heartbeat")]
    ELSE IF f.heartbeat_timeout = BadValue
    THEN [st EXCEPT !.rows[a] = ErrorRow("parsing heartbeat_timeout")]
    ELSE
      LET timeSince == t - f.last_heartbeat
          newHealth == Classify(timeSince, f.heartbeat_timeout)
          row == [prev |-> f.health, cur |-> newHealth, action |-> "", error |-> ""]
      IN
      IF newHealth = f.health
      THEN [st EXCEPT !.rows[a] = [row EXCEPT !.action = "no change"]]
      ELSE IF fault = "update_agent"
      THEN [st EXCEPT !.rows[a] = [row EXCEPT !.error = "updating agent bead"]]
      ELSE
        LET f2 == WithHealth(f, newHealth)
            st2 == [st EXCEPT !.agents[a] = f2]
        IN
        IF newHealth = HealthDead /\ f.assigned_work # ""
        THEN LET r == reassignOrphanWork(st.issues, f.assigned_work, fault) IN
             IF r.err # ""
             THEN [st2 EXCEPT !.rows[a] =
                       [row EXCEPT !.action = "updated", !.error = "reassigning work"]]
             ELSE [st2 EXCEPT !.issues = r.issues,
                              !.rows[a] = [row EXCEPT !.action = "updated, reassigned work"]]
        ELSE [st2 EXCEPT !.rows[a] = [row EXCEPT !.action = "updated"]]

RECURSIVE CheckAgentsUntilError(_, _, _, _)
CheckAgentsUntilError(order, st, faults, t) ==
    IF order = <<>> THEN st
    ELSE LET st2 == CheckOneAgent(st, Head(order), faults[Head(order)], t) IN
         IF st2.rows[Head(order)].error # "" THEN st2
         ELSE CheckAgentsUntilError(Tail(order), st2, faults, t)

RECURSIVE CheckAgents(_, _, _, _)
CheckAgents(order, st, faults, t) ==
    IF order = <<>> THEN st
    ELSE CheckAgents(Tail(order), CheckOneAgent(st, Head(order), faults[Head(order)], t),
                     faults, t)

NoRows == [a \in AgentIds |-> SkippedRow]
NoResults == [err |-> "", rows |-> NoRows]

\* The health engine between two ticks.
IdleEngine == [pc |-> "idle", listed |-> <<>>, at |-> 0, todo |-> <<>>, rows |-> NoRows]

\* CheckWorkerHealth: one tick of the health engine at time now.
CheckWorkerHealth ==
    /\ engine.pc = "idle"
    /\ \E listOk \in BOOLEAN, faults \in [AgentIds -> Faults] :
         IF ~listOk
         THEN /\ results' = [err |-> "listing agents", rows |-> NoRows]
              /\ UNCHANGED <<agents, issues>>
         ELSE LET st == CheckAgents(AgentOrder,
                                    [agents |-> agents, issues |-> issues, rows |-> NoRows],
                                    faults, now)
              IN /\ agents' = st.agents
                 /\ issues' = st.issues
                 /\ results' = [err |-> "", rows |-> st.rows]
    /\ lastOp' = "health"
    /\ UNCHANGED <<townVars, now, engine, projVars, taskVars, mqVars, slingVars>>

\* runHeartbeat: the worker's heartbeat command (the agent bead part).
HeartbeatHealthFlags == {HealthHealthy, HealthDead}
runHeartbeat ==
    /\ \E a \in AgentIds, h \in HeartbeatHealthFlags, w \in WorkIds \cup {""},
          showOk \in BOOLEAN, updOk \in BOOLEAN :
         IF showOk /\ updOk
         THEN agents' = [agents EXCEPT ![a] = [@ EXCEPT !.last_heartbeat = now,
                                                        !.health = h,
                                                        !.assigned_work = w]]
         ELSE UNCHANGED agents
    /\ lastOp' = "heartbeat"
    /\ results' = NoResults
    /\ UNCHANGED <<townVars, now, engine, projVars, taskVars, issues, mqVars, slingVars>>

\* CheckWorkerHealth, as the workers see it: the engine lists the agent beads
\* and reads the clock, then checks the listed agents one by one, each check
\* writing the description it formats from the fields it listed. A worker's
\* heartbeat can run between the listing and a check, and between two checks.
ListAgents ==
    /\ engine.pc = "idle"
    /\ \E listOk \in BOOLEAN :
         IF ~listOk
         THEN /\ results' = [err |-> "listing agents", rows |-> NoRows]
              /\ lastOp' = "health"
              /\ UNCHANGED engine
         ELSE /\ engine' = [pc |-> "checking", listed |-> agents, at |-> now,
                            todo |-> AgentOrder, rows |-> NoRows]
              /\ results' = NoResults
              /\ lastOp' = "list"
    /\ UNCHANGED <<townVars, now, agents, issues, projVars, taskVars, mqVars, slingVars>>

CheckNextAgent ==
    /\ engine.pc = "checking"
    /\ \E fault \in Faults :
         LET a == Head(engine.todo)
             rest == Tail(engine.todo)
             st == CheckOneAgent([agents |-> [agents EXCEPT ![a] = engine.listed[a]],
                                  issues |-> issues, rows |-> engine.rows],
                                 a, fault, engine.at)
             wrote == st.agents[a] # engine.listed[a]
         IN /\ agents' = IF wrote THEN [agents EXCEPT ![a] = st.agents[a]] ELSE agents
            /\ issues' = st.issues
            /\ IF rest = <<>>
               THEN /\ engine' = IdleEngine
                    /\ results' = [err |-> "", rows |-> st.rows]
                    /\ lastOp' = "health"
               ELSE /\ engine' = [engine EXCEPT !.todo = rest, !.rows = st.rows]
                    /\ results' = NoResults
                    /\ lastOp' = "check"
    /\ UNCHANGED <<townVars, now, projVars, taskVars, mqVars, slingVars>>

\* Time passes between operations.
AdvanceClock ==
    /\ now < MaxNow
    /\ now' = now + 1
    /\ lastOp' = "clock"
    /\ results' = NoResults
    /\ UNCHANGED <<townVars, agents, issues, engine, mqVars, slingVars, projVars, taskVars>>

(***************************************************************************)
(* Merge queue: the refinery Engineer and the gt mq commands.              *)
(*                                                                         *)
(* A branch of the rig repository is the sequence of the commits on its    *)
(* first-parent chain, oldest first; <<>> is a branch that does not exist. *)
(* A commit made by merging branch b is named b, so that a history names   *)
(* its head commit and two equal histories are the same commit.            *)
(* git reset --hard and git merge --abort work on the local repository     *)
(* only and never fail here.                                               *)
(***************************************************************************)
MrIds == {"m1", "m2"}
\* creation order of the merge requests, oldest first
MrOrder == <<"m1", "m2">>
Branches == {"b1", "b2"}
MainBranch == "main"
IntBranch == "integration/e1"
Targets == {MainBranch, IntBranch}
Priorities == {1, 2}
RootCommit == "c0"
ExternalCommit == "ext"
\* bound: commits that others push to origin/main
MaxExternal == 1

\* DefaultMergeQueueConfig
TargetBranch == MainBranch
maxRetries == 3
\* baseDelay := time.Second, in seconds
baseDelay == 1

NoMR == [status |-> "none", branch |-> "", target |-> "", priority |-> 0,
         close_reason |-> <<>>]

Range(s) == {s[i] : i \in DOMAIN s}
IsPrefix(s, t) == Len(s) <= Len(t) /\ SubSeq(t, 1, Len(s)) = s

\* git checkout <target>: an absent local branch is created from origin's.
gitCheckout(loc, org) == IF loc = <<>> THEN org ELSE loc

\* git pull origin <target>: fast-forwards the local branch when origin is ahead.
gitPull(loc, org, ok) == IF ok /\ loc # <<>> /\ IsPrefix(loc, org) THEN org ELSE loc

\* git merge origin/<branch> --no-ff: one merge commit on top of HEAD, or
\* nothing ("Already up to date", exit 0) when the branch has no commit that
\* HEAD lacks.
gitMerge(loc, branch, noop) == IF noop THEN loc ELSE Append(loc, branch)

\* git reset --hard HEAD~1
resetHard(loc) == IF Len(loc) > 1 THEN SubSeq(loc, 1, Len(loc) - 1) ELSE loc

\* bd ready --type=merge-request: the open merge requests by priority, then age.
MrIndex(m) == CHOOSE i \in DOMAIN MrOrder : MrOrder[i] = m
ReadyBefore(ms, x, y) ==
    \/ ms[x].priority < ms[y].priority
    \/ (ms[x].priority = ms[y].priority /\ MrIndex(x) < MrIndex(y))
RECURSIVE ReadySorted(_, _)
ReadySorted(ms, S) ==
    IF S = {} THEN <<>>
    ELSE LET h == CHOOSE x \in S : \A y \in S \ {x} : ReadyBefore(ms, x, y)
         IN <<h>> \o ReadySorted(ms, S \ {h})
ReadyWithType(ms) == ReadySorted(ms, {m \in MrIds : ms[m].status = "open"})

\* pushWithRetry: okAt is the first attempt at which git push would succeed
\* (0: never). The result is whether the push went through, the number of
\* attempts made and the delays slept before them, in seconds.
RECURSIVE pushLoopFlat(_, _, _, _)
pushLoopFlat(attempt, delay, slept, okAt) ==
    IF attempt > maxRetries THEN [ok |-> FALSE, attempts |-> attempt, slept |-> slept]
    ELSE LET s == IF attempt > 0 THEN Append(slept, delay) ELSE slept
         IN IF okAt = attempt + 1
            THEN [ok |-> TRUE, attempts |-> attempt + 1, slept |-> s]
            ELSE pushLoopFlat(attempt + 1, delay, s, okAt)

RECURSIVE pushLoop(_, _, _, _)
pushLoop(attempt, delay, slept, okAt) ==
    IF attempt > maxRetries THEN [ok |-> FALSE, attempts |-> attempt, slept |-> slept]
    ELSE LET s == IF attempt > 0 THEN Append(slept, delay) ELSE slept
             d == IF attempt > 0 THEN delay * 2 ELSE delay
         IN IF okAt = attempt + 1
            THEN [ok |-> TRUE, attempts |-> attempt + 1, slept |-> s]
            ELSE pushLoop(attempt + 1, d, s, okAt)
pushWithRetry(okAt) == pushLoop(0, baseDelay, <<>>, okAt)

NoProcessResult == [Success |-> FALSE, MergeCommit |-> "", Error |-> "",
                    Conflict |-> FALSE, TestsFailed |-> FALSE]
Failure(e) == [NoProcessResult EXCEPT !.Error = e]

\* What the environment decides in one tick of the refinery: the first command
\* that fails (none: no command fails; tests: run_tests is on and the test
\* command fails), whether the non-fatal pull works, whether the branch has
\* nothing to merge, the attempt at which the push gets through, whether
\* rev-parse works and whether the final store update is accepted.
RefineryFailPoints ==
    {"none", "ready", "claim", "fetch", "checkout", "conflict", "merge", "tests"}
RefineryInputs ==
    {i \in [fail : RefineryFailPoints, pull : BOOLEAN, noop : BOOLEAN,
            pushOkAt : 0..(maxRetries + 1), rev : BOOLEAN, store : BOOLEAN] :
        /\ i.fail \in {"ready", "claim"} => i.store
        /\ i.fail \in {"ready", "claim", "fetch", "checkout"} => i.pull
        /\ i.fail \notin {"none", "tests"} => ~i.noop
        /\ i.fail # "none" => (i.pushOkAt = 1 /\ i.rev)
        /\ i.pushOkAt = 0 => i.rev}

\* No push was attempted.
OnePush == [ok |-> FALSE, attempts |-> 1, slept |-> <<>>]

NoPush == [ok |-> FALSE, attempts |-> 0, slept |-> <<>>]

\* ExecuteMerge: checkout, pull, merge, test, push, rev-parse.
\* The result is the two histories of the target and the ProcessResult.
ExecuteMerge(loc, org, mr, inp) ==
    LET target == IF mr.target = "" THEN TargetBranch ELSE mr.target
        out(l, o, r, p) == [loc |-> [loc EXCEPT ![target] = l],
                            org |-> [org EXCEPT ![target] = o],
                            res |-> r, attempts |-> p.attempts, slept |-> p.slept]
    IN
    IF inp.fail = "checkout" \/ (loc[target] = <<>> /\ org[target] = <<>>)
    THEN out(loc[target], org[target], Failure("checkout target failed"), NoPush)
    ELSE
      LET pulled == gitPull(gitCheckout(loc[target], org[target]), org[target], inp.pull)
          merged == gitMerge(pulled, mr.branch, inp.noop)
      IN
      IF inp.fail = "conflict"
      THEN out(pulled, org[target],
               [Failure("merge conflict") EXCEPT !.Conflict = TRUE], NoPush)
      ELSE IF inp.fail = "merge"
      THEN out(pulled, org[target], Failure("merge failed"), NoPush)
      ELSE IF inp.fail = "tests"
      THEN out(resetHard(merged), org[target],
               [Failure("tests failed") EXCEPT !.TestsFailed = TRUE], NoPush)
      ELSE
        \* origin accepts a push only when it fast-forwards origin's branch
        LET p == pushWithRetry(IF IsPrefix(org[target], merged)
                               THEN inp.pushOkAt ELSE 0)
        IN
        IF ~p.ok
        THEN out(resetHard(merged), org[target], Failure("push failed"), p)
        ELSE out(merged, merged,
                 [NoProcessResult EXCEPT
                     !.Success = TRUE,
                     !.MergeCommit = IF inp.rev THEN merged[Len(merged)]
                                     ELSE "unknown"],
                 p)

\* ProcessMR: parse the MR fields, fetch the branch, ExecuteMerge.
ProcessMR(loc, org, mr, inp) ==
    IF mr.branch = ""
    THEN [loc |-> loc, org |-> org, attempts |-> 0, slept |-> <<>>,
          res |-> Failure("branch field is required in merge request")]
    ELSE IF inp.fail = "fetch"
    THEN [loc |-> loc, org |-> org, attempts |-> 0, slept |-> <<>>,
          res |-> Failure("fetch failed")]
    ELSE ExecuteMerge(loc, org, mr, inp)

\* handleFailure: reopen the MR; a rejected update is only logged.
handleFailureKeep(ms, m, storeOk) == ms

handleFailure(ms, m, storeOk) ==
    IF storeOk THEN [ms EXCEPT ![m].status = "open"] ELSE ms

\* CloseWithReason("merged: <sha>", id); a rejected update is only logged.
\* The reason is kept as the pair of the format's literal and its argument.
CloseWithReasonBare(ms, m, sha, storeOk) ==
    IF storeOk
    THEN [ms EXCEPT ![m].status = "closed", ![m].close_reason = <<"closed", sha>>]
    ELSE ms

CloseWithReason(ms, m, sha, storeOk) ==
    IF storeOk
    THEN [ms EXCEPT ![m].status = "closed", ![m].close_reason = <<"merged: ", sha>>]
    ELSE ms

NoMqResult == [op |-> "", err |-> "", mr |-> "", res |-> NoProcessResult,
               attempts |-> 0, slept |-> <<>>, warning |-> "", force |-> FALSE]
RefineryResult(e, m, r, n, w) ==
    [NoMqResult EXCEPT !.op = "processOnce", !.err = e, !.mr = m, !.res = r,
                       !.attempts = n, !.warning = w]

\* mr := readyMRs[0]
SelectLast(readyMRs) == readyMRs[Len(readyMRs)]

SelectMR(readyMRs) == readyMRs[1]

\* processOnce: one tick of the Engineer loop.
processOnce ==
    /\ \E inp \in RefineryInputs :
         LET readyMRs == ReadyWithType(mrs) IN
         IF inp.fail = "ready"
         THEN /\ mqResult' = RefineryResult("querying ready merge-requests", "",
                                            NoProcessResult, 0, "")
              /\ UNCHANGED <<mrs, gitLocal, gitOrigin>>
         ELSE IF readyMRs = <<>>
         THEN /\ mqResult' = RefineryResult("", "", NoProcessResult, 0, "")
              /\ UNCHANGED <<mrs, gitLocal, gitOrigin>>
         ELSE
           LET mr == SelectMR(readyMRs) IN
           IF inp.fail = "claim"
           THEN /\ mqResult' = RefineryResult("claiming MR", mr, NoProcessResult, 0, "")
                /\ UNCHANGED <<mrs, gitLocal, gitOrigin>>
           ELSE
             LET claimed == [mrs EXCEPT ![mr].status = "in_progress"]
                 r == ProcessMR(gitLocal, gitOrigin, mrs[mr], inp)
             IN /\ mrs' = IF r.res.Success
                          THEN CloseWithReason(claimed, mr, r.res.MergeCommit, inp.store)
                          ELSE handleFailure(claimed, mr, inp.store)
                /\ gitLocal' = r.loc
                /\ gitOrigin' = r.org
                /\ mqResult' = [RefineryResult("", mr, r.res, r.attempts,
                                                IF inp.store THEN ""
                                                ELSE IF r.res.Success
                                                THEN "failed to close MR"
                                                ELSE "failed to reopen MR")
                                    EXCEPT !.slept = r.slept]
    /\ lastOp' = "processOnce"
    /\ UNCHANGED <<townVars, now, projVars, taskVars, healthVars, slingVars, epic>>

\* Refinery instances that run processOnce side by side on the same rig:
\* the steps of processOnce between which another instance can act.
Engineers == {"e1", "e2"}
IdleEngineer == [pc |-> "idle", mr |-> ""]

InitEngineers == engineers = [e \in Engineers |-> IdleEngineer]

\* 1.-3. ReadyWithType, and the head of the list
engineerQuery(e) ==
    /\ engineers[e].pc = "idle"
    /\ \E ok \in BOOLEAN :
         LET readyMRs == ReadyWithType(mrs) IN
         IF ~ok
         THEN /\ mqResult' = RefineryResult("querying ready merge-requests", "",
                                            NoProcessResult, 0, "")
              /\ UNCHANGED engineers
         ELSE IF readyMRs = <<>>
         THEN /\ mqResult' = RefineryResult("", "", NoProcessResult, 0, "")
              /\ UNCHANGED engineers
         ELSE /\ engineers' = [engineers EXCEPT ![e] = [pc |-> "selected",
                                                        mr |-> SelectMR(readyMRs)]]
              /\ UNCHANGED mqResult
    /\ lastOp' = "query"
    /\ UNCHANGED <<now, projVars, taskVars, healthVars, slingVars, mrs, epic, gitLocal,
                   gitOrigin, procVars, loopVars, lifeVars, mailVars, beadsVars>>

\* 4. Claim: bd update <id> --status=in_progress. The store serialises the
\* updates of a bead; an update can be rejected, and it does not look at
\* the status the bead has.
engineerClaim(e) ==
    /\ engineers[e].pc = "selected"
    /\ \E ok \in BOOLEAN :
         LET mr == engineers[e].mr IN
         IF ~ok
         THEN /\ mqResult' = RefineryResult("claiming MR", mr, NoProcessResult, 0, "")
              /\ engineers' = [engineers EXCEPT ![e] = IdleEngineer]
              /\ UNCHANGED mrs
         ELSE /\ mrs' = [mrs EXCEPT ![mr].status = "in_progress"]
              /\ engineers' = [engineers EXCEPT ![e].pc = "claimed"]
              /\ UNCHANGED mqResult
    /\ lastOp' = "claim"
    /\ UNCHANGED <<now, projVars, taskVars, healthVars, slingVars, epic, gitLocal,
                   gitOrigin, procVars, loopVars, lifeVars, mailVars, beadsVars>>

\* 5.-6. ProcessMR and the handling of its result. Of the environment's
\* choices, the command that fails and the store's answer are kept; the
\* pull and rev-parse work and the push gets through at once or never.
\* bound: merge commits on a target branch when instances race
MaxMerges == 2
RaceInputs ==
    {i \in RefineryInputs : /\ i.fail \notin {"ready", "claim"}
                            /\ i.pull /\ i.rev /\ ~i.noop
                            /\ i.pushOkAt \in {0, 1}}
engineerProcess(e) ==
    /\ engineers[e].pc = "claimed"
    /\ \E inp \in RaceInputs :
         LET mr == engineers[e].mr
             r == ProcessMR(gitLocal, gitOrigin, mrs[mr], inp)
         IN /\ \A t \in Targets : Len(r.loc[t]) <= MaxMerges + 1
            /\ mrs' = IF r.res.Success
                      THEN CloseWithReason(mrs, mr, r.res.MergeCommit, inp.store)
                      ELSE handleFailure(mrs, mr, inp.store)
            /\ gitLocal' = r.loc
            /\ gitOrigin' = r.org
            /\ mqResult' = [RefineryResult("", mr, r.res, r.attempts,
                                            IF inp.store THEN ""
                                            ELSE IF r.res.Success
                                            THEN "failed to close MR"
                                            ELSE "failed to reopen MR")
                                EXCEPT !.slept = r.slept]
    /\ engineers' = [engineers EXCEPT ![e] = IdleEngineer]
    /\ lastOp' = "processOnce"
    /\ UNCHANGED <<now, projVars, taskVars, healthVars, slingVars, epic,
                   procVars, loopVars, lifeVars, mailVars, beadsVars>>

\* gt mq submit: one more merge-request bead for a worker branch. The target
\* is main, or the integration branch of the epic when the rig has one (the
\* --epic flag is taken to name an existing epic).
SubmitTargets == IF epic = "none" THEN {MainBranch} ELSE Targets
FreeMR == CHOOSE m \in MrIds :
              /\ mrs[m].status = "none"
              /\ \A o \in MrIds : mrs[o].status = "none" => MrIndex(m) <= MrIndex(o)
runMqSubmit ==
    /\ \E m \in MrIds : mrs[m].status = "none"
    /\ \E b \in Branches, t \in SubmitTargets, p \in Priorities, createOk \in BOOLEAN :
         mrs' = IF createOk
                THEN [mrs EXCEPT ![FreeMR] = [status |-> "open", branch |-> b,
                                              target |-> t, priority |-> p,
                                              close_reason |-> <<>>]]
                ELSE mrs
    /\ lastOp' = "submit"
    /\ mqResult' = NoMqResult
    /\ UNCHANGED <<townVars, now, projVars, taskVars, healthVars, slingVars, epic, gitLocal, gitOrigin>>

\* bd create --type=merge-request by hand: a bead whose description has no
\* MR fields.
bdCreateMR ==
    /\ \E m \in MrIds : mrs[m].status = "none"
    /\ \E b \in {""} :
         mrs' = [mrs EXCEPT ![FreeMR] = [status |-> "open", branch |-> b,
                                         target |-> "", priority |-> 2,
                                         close_reason |-> <<>>]]
    /\ lastOp' = "create"
    /\ mqResult' = NoMqResult
    /\ UNCHANGED <<townVars, now, projVars, taskVars, healthVars, slingVars, epic, gitLocal, gitOrigin>>

\* Somebody else pushes a commit to origin/main.
ExternalPush ==
    /\ Cardinality({i \in DOMAIN gitOrigin[MainBranch] :
                        gitOrigin[MainBranch][i] = ExternalCommit}) < MaxExternal
    /\ gitOrigin' = [gitOrigin EXCEPT ![MainBranch] = Append(@, ExternalCommit)]
    /\ lastOp' = "external"
    /\ mqResult' = NoMqResult
    /\ UNCHANGED <<townVars, now, projVars, taskVars, healthVars, slingVars, mrs, epic, gitLocal>>

\* gt mq integration create <epic>: the integration branch, cut from
\* origin/main and pushed.
IntegrationCreateFailPoints == {"none", "show", "fetch", "create", "push"}
runMqIntegrationCreate ==
    /\ \E fail \in IntegrationCreateFailPoints :
         IF \/ fail \in {"show", "fetch", "create", "push"}
            \/ gitLocal[IntBranch] # <<>>
            \/ gitOrigin[IntBranch] # <<>>
         THEN /\ mqResult' = [NoMqResult EXCEPT !.op = "create", !.err = "create failed"]
              /\ UNCHANGED <<gitLocal, gitOrigin>>
         ELSE /\ gitLocal' = [gitLocal EXCEPT ![IntBranch] = gitOrigin[MainBranch]]
              /\ gitOrigin' = [gitOrigin EXCEPT ![IntBranch] = gitOrigin[MainBranch]]
              /\ mqResult' = [NoMqResult EXCEPT !.op = "create"]
    /\ lastOp' = "integration create"
    /\ UNCHANGED <<townVars, now, projVars, taskVars, healthVars, slingVars, mrs, epic>>

\* findOpenMRsForIntegration: the merge requests listed with status open
\* whose target field is the integration branch.
findOpenMRsNone(ms, targetBranch) == {}

findOpenMRsForIntegration(ms, targetBranch) ==
    {m \in MrIds : ms[m].status = "open" /\ ms[m].target = targetBranch}

\* What the environment and the command line decide in one land: the first
\* command that fails, --force, --dry-run, and the outcome of the commands
\* whose failure is only reported.
LandFailPoints == {"none", "show", "branch", "list", "dirty", "fetch", "checkout",
                   "merge", "tests", "push"}
LandInputs ==
    {i \in [fail : LandFailPoints, force : BOOLEAN, dryRun : BOOLEAN, pull : BOOLEAN,
            delRemote : BOOLEAN, delLocal : BOOLEAN, close : BOOLEAN] :
        /\ i.fail # "none" => (i.delRemote /\ i.delLocal /\ i.close)
        /\ i.fail \in {"show", "branch", "list", "dirty", "fetch", "checkout"} => i.pull
        /\ i.fail \in {"show", "branch", "list"} => (~i.force /\ ~i.dryRun)
        /\ i.dryRun => (i.fail = "none" /\ i.pull)}

LandResult(inp, e) ==
    [NoMqResult EXCEPT !.op = "land", !.err = e, !.force = inp.force]

\* gt mq integration land <epic>
runMqIntegrationLand ==
    /\ \E inp \in LandInputs :
         LET openMRs == findOpenMRsForIntegration(mrs, IntBranch)
             refuse(e) == /\ mqResult' = LandResult(inp, e)
                          /\ UNCHANGED <<gitLocal, gitOrigin, epic>>
         IN
         IF inp.fail = "show" THEN refuse("fetching epic")
         ELSE IF inp.fail = "branch" THEN refuse("checking branch existence")
         ELSE IF gitLocal[IntBranch] = <<>> /\ gitOrigin[IntBranch] = <<>>
         THEN refuse("integration branch does not exist")
         ELSE IF inp.fail = "list" THEN refuse("checking open MRs")
         ELSE IF openMRs # {} /\ ~inp.force THEN refuse("cannot land: open MRs")
         ELSE IF inp.dryRun THEN refuse("")
         ELSE IF inp.fail = "dirty" THEN refuse("working directory is not clean")
         ELSE IF inp.fail = "fetch" THEN refuse("fetching from origin")
         ELSE IF inp.fail = "checkout" THEN refuse("checking out main")
         ELSE
           LET pulled == gitPull(gitLocal[MainBranch], gitOrigin[MainBranch], inp.pull)
               \* nothing to merge when main already holds the integration
               \* branch: it was cut from main and never merged into, or it
               \* has been landed before
               merged == gitMerge(pulled, IntBranch,
                                  \/ IsPrefix(gitOrigin[IntBranch], pulled)
                                  \/ IntBranch \in Range(pulled))
               failed(l, e) == /\ gitLocal' = [gitLocal EXCEPT ![MainBranch] = l]
                               /\ mqResult' = LandResult(inp, e)
                               /\ UNCHANGED <<gitOrigin, epic>>
           IN
           IF inp.fail = "merge" \/ gitOrigin[IntBranch] = <<>>
           THEN failed(pulled, "merge failed")
           ELSE IF inp.fail = "tests" THEN failed(resetHard(merged), "tests failed")
           ELSE IF inp.fail = "push" \/ ~IsPrefix(gitOrigin[MainBranch], merged)
           THEN failed(resetHard(merged), "push failed")
           ELSE /\ gitLocal' = [gitLocal EXCEPT
                                   ![MainBranch] = merged,
                                   ![IntBranch] = IF inp.delLocal THEN <<>> ELSE @]
                /\ gitOrigin' = [gitOrigin EXCEPT
                                   ![MainBranch] = merged,
                                   ![IntBranch] = IF inp.delRemote THEN <<>> ELSE @]
                /\ epic' = IF inp.close THEN "closed" ELSE epic
                /\ mqResult' = LandResult(inp, "")
    /\ lastOp' = "land"
    /\ UNCHANGED <<townVars, now, projVars, taskVars, healthVars, slingVars, mrs>>

(***************************************************************************)
(* gt sling: dispatch of a work item to a target agent (bead mode).        *)
(*                                                                         *)
(* An invocation is a process; its steps are the points where runSling     *)
(* reads or writes the work store, so that invocations interleave there.   *)
(***************************************************************************)
Slingers == {"s1", "s2"}
SlingTargets == {"t1", "t2"}

NoInfo == [status |-> "", assignee |-> ""]
IdleSling == [pc |-> "idle", bead |-> "", target |-> "", force |-> FALSE,
              info |-> NoInfo, err |-> <<>>]

\* The command has returned err (<<>>: it returned nil).
Returned(sl, err) == [sl EXCEPT !.pc = "done", !.err = err]

\* Target resolution. For a rig, or a polecat whose session is gone, a fresh
\* polecat is spawned with the bead as its hook_bead.
ResolveOutcomes == {"agent", "spawn", "resolve_fail", "spawn_fail"}
slingResolve(s) ==
    /\ sling[s].pc = "idle"
    /\ \E w \in WorkIds, T \in SlingTargets, force \in BOOLEAN, how \in ResolveOutcomes :
         LET sl == [sling[s] EXCEPT !.bead = w, !.target = T, !.force = force] IN
         /\ sling' = [sling EXCEPT ![s] =
                IF how = "resolve_fail" THEN Returned(sl, <<"resolving target">>)
                ELSE IF how = "spawn_fail" THEN Returned(sl, <<"spawning polecat">>)
                ELSE [sl EXCEPT !.pc = "resolved"]]
         /\ hookBead' = IF how = "spawn" THEN [hookBead EXCEPT ![T] = w] ELSE hookBead
    /\ lastOp' = "sling"
    /\ UNCHANGED <<townVars, now, projVars, taskVars, healthVars, mqVars, convoys>>

\* if info.Status == "pinned" && !slingForce
PinnedGuardForced(info, force) == info.status = "pinned" /\ force

PinnedGuard(info, force) == info.status = "pinned" /\ ~force

PinnedError(assignee) ==
    <<"bead is already pinned to", IF assignee = "" THEN "(unknown)" ELSE assignee>>

\* getBeadInfo, the pinned check, the auto-convoy and the dry-run exit.
slingGuard(s) ==
    /\ sling[s].pc = "resolved"
    /\ \E readOk \in BOOLEAN, dryRun \in BOOLEAN, convoyOk \in BOOLEAN :
         LET w == sling[s].bead
             info == [status |-> issues[w].status, assignee |-> issues[w].assignee]
             sl == [sling[s] EXCEPT !.info = info]
         IN
         IF ~readOk
         THEN /\ sling' = [sling EXCEPT ![s] = Returned(@, <<"checking bead status">>)]
              /\ UNCHANGED convoys
         ELSE IF PinnedGuard(info, sling[s].force)
         THEN /\ sling' = [sling EXCEPT ![s] = Returned(sl, PinnedError(info.assignee))]
              /\ UNCHANGED convoys
         ELSE /\ convoys' = IF w \notin convoys /\ ~dryRun /\ convoyOk
                            THEN convoys \cup {w} ELSE convoys
              /\ sling' = [sling EXCEPT ![s] =
                     IF dryRun THEN Returned(sl, <<>>) ELSE [sl EXCEPT !.pc = "guarded"]]
    /\ lastOp' = "sling"
    /\ UNCHANGED <<townVars, now, projVars, taskVars, healthVars, mqVars, hookBead>>

\* bd update <bead> --status=hooked --assignee=<target>
HookUpdateStatusOnly(iss, w, T) == [iss EXCEPT ![w].status = "hooked"]

HookUpdate(iss, w, T) == [iss EXCEPT ![w] = [status |-> "hooked", assignee |-> T]]

slingHook(s) ==
    /\ sling[s].pc = "guarded"
    /\ \E hookOk \in BOOLEAN :
         IF hookOk
         THEN /\ issues' = HookUpdate(issues, sling[s].bead, sling[s].target)
              /\ sling' = [sling EXCEPT ![s].pc = "hooked"]
         ELSE /\ sling' = [sling EXCEPT ![s] = Returned(@, <<"hooking bead">>)]
              /\ UNCHANGED issues
    /\ lastOp' = "sling"
    /\ UNCHANGED <<townVars, now, projVars, taskVars, agents, results, engine, mqVars, hookBead, convoys>>

\* updateAgentHookBead, then the steps that do not touch status, assignee or
\* hook_bead (work molecule, dispatcher and args in the description, nudge).
slingMirror(s) ==
    /\ sling[s].pc = "hooked"
    /\ \E mirrorOk \in BOOLEAN :
         hookBead' = IF mirrorOk THEN [hookBead EXCEPT ![sling[s].target] = sling[s].bead]
                     ELSE hookBead
    /\ sling' = [sling EXCEPT ![s] = Returned(@, <<>>)]
    /\ lastOp' = "sling"
    /\ UNCHANGED <<townVars, now, projVars, taskVars, healthVars, mqVars, convoys>>

\* recoverPolecat, as far as the work store goes: the hook bead of the
\* recovered polecat is set to in_progress.
recoverPolecat ==
    /\ \E T \in SlingTargets, updOk \in BOOLEAN :
         /\ hookBead[T] # ""
         /\ issues' = IF updOk THEN [issues EXCEPT ![hookBead[T]].status = "in_progress"]
                       ELSE issues
    /\ lastOp' = "recover"
    /\ UNCHANGED <<townVars, now, projVars, taskVars, agents, results, engine, mqVars, slingVars>>

(***************************************************************************)
(* Projection sync daemon: the activities table.                           *)
(*                                                                         *)
(* In the specification of the daemon the clock counts days. The task,     *)
(* agent and comment phases of a tick are modelled by their outcome only.  *)
(***************************************************************************)
EventIssues == {"w1", "w2"}
MaxEvents == 2
MaxDay == 8

\* WHERE created_at >= datetime('now', '-7 days')
ActivityWindowDays == 7
\* LIMIT 10000
IncrementalLimit == 10000

\* t.UnixMilli(), for a time given in days
unixMillis(t) == t * 86400000

\* The row inserted into activities for event e (type, agent and content
\* are functions of the event and left out).
ActivityRow(e) == [task_id |-> e.issue_id, timestamp |-> unixMillis(e.created_at)]

\* The rows inserted for the events with the ids in ids, one per event.
InsertedRows(evts, ids) ==
    [r \in {ActivityRow(evts[i]) : i \in ids} |->
        Cardinality({i \in ids : ActivityRow(evts[i]) = r})]

\* Full sync: the table is cleared and rebuilt from the events of the last
\* seven days. lastEventID is not touched.
syncActivity(evts, t) ==
    InsertedRows(evts, {i \in DOMAIN evts : evts[i].created_at >= t - ActivityWindowDays})

\* Incremental sync: the events after lastEventID are appended and
\* lastEventID becomes the largest id among them.
syncActivityIncremental(evts, acts, last) ==
    LET new == {i \in DOMAIN evts : evts[i].id > last}
        taken == {i \in new : Cardinality({j \in new : j < i}) < IncrementalLimit}
    IN  IF taken = {} THEN [activities |-> acts, lastEventID |-> last]
        ELSE [activities |-> acts (+) InsertedRows(evts, taken),
              lastEventID |-> CHOOSE m \in taken : \A i \in taken : evts[i].id <= evts[m].id]

(***************************************************************************)
(* Projection sync daemon: the tasks table, the dirty set and the state    *)
(* file. Of an issue the model keeps updated_at and whether it is deleted; *)
(* of a tasks row updated_at and indexed_at.                               *)
(***************************************************************************)
NoIssue == [exists |-> FALSE, updated_at |-> 0, deleted |-> FALSE]
NoTask == [exists |-> FALSE, updated_at |-> 0, indexed_at |-> 0]
NoTasks == [i \in EventIssues |-> NoTask]

\* The tasks row written for issue i by a sync that runs at time t.
TaskRowStamped(iss, i, t) ==
    [exists |-> TRUE, updated_at |-> unixMillis(t), indexed_at |-> unixMillis(t)]

TaskRow(iss, i, t) ==
    [exists |-> TRUE, updated_at |-> unixMillis(iss[i].updated_at),
     indexed_at |-> unixMillis(t)]

\* WHERE deleted_at IS NULL
LiveIssues(iss) == {i \in EventIssues : iss[i].exists /\ ~iss[i].deleted}

\* Full sync: the table is cleared and rebuilt from the issues that are not
\* deleted.
syncTasksSkipped(iss, t) == NoTasks

syncTasks(iss, t) ==
    [i \in EventIssues |-> IF i \in LiveIssues(iss) THEN TaskRow(iss, i, t) ELSE NoTask]

\* Incremental sync, the read: issues INNER JOIN dirty_issues, not deleted.
DirtyRead(iss, dirty) == LiveIssues(iss) \cap dirty

\* Incremental sync, the upsert of the issues read; other rows are kept.
UpsertTasks(tks, iss, read, t) ==
    [i \in EventIssues |-> IF i \in read THEN TaskRow(iss, i, t) ELSE tks[i]]

\* maxUpdateTime over the issues read (0 when there is none)
MaxUpdateTime(iss, read) ==
    IF read = {} THEN 0
    ELSE LET m == CHOOSE i \in read :
                     \A j \in read : iss[j].updated_at <= iss[i].updated_at
         IN  unixMillis(iss[m].updated_at)

\* DELETE FROM dirty_issues
ClearDirtyIssues(dirty, read) == {}

\* The state file written by SaveState: running, pid, started_at, last_sync,
\* sync_count and error_count (values other than running are left out).
SavedState == [running |-> TRUE]

\* The value New takes from the loaded state for field f: the zero value
\* when the file, or the field in it, is missing.
StateField(file, f, zero) == IF f \in DOMAIN file THEN file[f] ELSE zero

IdleTick == [pc |-> "idle", caller |-> "", read |-> {}, max |-> 0]

\* One tick of the daemon. fail names the phase that fails:
\* "tasks_incremental" and "incremental" are failures of the incremental task
\* and activity sync alone, after which the tick falls back to the full one;
\* "save" is a failure of SaveState, which is only logged.
SyncFailPoints == {"none", "connect", "tasks_incremental", "tasks", "agents",
                   "incremental", "activity", "comments", "save"}
AfterTasksFailPoints == SyncFailPoints \ {"connect", "tasks_incremental", "tasks"}

\* Sync from the agent sync on: agents, activity, comments, SaveState.
\* tasksLog is what the task sync of the tick has logged.
SyncAfterTasks(fail, tasksLog) ==
    LET inc == syncActivityIncremental(events, activities, lastEventID)
        useInc == lastEventID > 0 /\ incrementalEnabled'
    IN
    /\ fail = "incremental" => useInc
    /\ IF fail \in {"agents", "activity"}
       THEN UNCHANGED <<activities, lastEventID>>
       ELSE IF useInc /\ fail # "incremental"
       THEN /\ activities' = inc.activities
            /\ lastEventID' = inc.lastEventID
       ELSE /\ activities' = syncActivity(events, now)
            /\ UNCHANGED lastEventID
    /\ syncErr' = CASE fail \in {"none", "incremental", "save"} -> ""
                     [] fail = "agents" -> "syncing agents"
                     [] fail = "activity" -> "syncing activity"
                     [] fail = "comments" -> "syncing comments"
    /\ stateFile' = IF fail \in {"none", "incremental"} THEN SavedState ELSE stateFile
    /\ syncLog' = tasksLog \cup (IF fail = "incremental" THEN {"activity"} ELSE {})

\* Sync up to the end of the task sync. When the incremental task sync has
\* upserted the dirty issues it has read, the tick goes on in ClearDirty.
Sync ==
    /\ syncTick.pc = "idle"
    /\ \E fail \in SyncFailPoints :
         LET useInc == lastTaskUpdate > 0 /\ incrementalEnabled
             read == DirtyRead(beadsIssues, dirtyIssues)
         IN
         /\ fail = "tasks_incremental" => useInc
         /\ IF fail \in {"connect", "tasks"}
            THEN /\ syncErr' = IF fail = "connect" THEN "opening database"
                                ELSE "syncing tasks"
                 /\ syncLog' = IF fail = "tasks" /\ useInc THEN {"tasks"} ELSE {}
                 /\ UNCHANGED <<activities, lastEventID, incrementalEnabled, tasks,
                                stateFile, syncTick>>
            ELSE IF useInc /\ fail = "none" /\ read # {}
            THEN /\ tasks' = UpsertTasks(tasks, beadsIssues, read, now)
                 /\ syncTick' = [pc |-> "clearing", caller |-> "Sync", read |-> read,
                                 max |-> MaxUpdateTime(beadsIssues, read)]
                 /\ syncLog' = {}
                 /\ UNCHANGED <<activities, lastEventID, incrementalEnabled,
                                stateFile, syncErr>>
            ELSE /\ useInc /\ read # {} => fail = "tasks_incremental"
                 /\ tasks' = IF useInc /\ fail # "tasks_incremental" THEN tasks
                             ELSE syncTasks(beadsIssues, now)
                 /\ incrementalEnabled' = IF useInc THEN incrementalEnabled ELSE TRUE
                 /\ UNCHANGED syncTick
                 /\ IF fail = "tasks_incremental"
                    THEN SyncAfterTasks("none", {"tasks"})
                    ELSE SyncAfterTasks(fail, {})
    /\ lastOp' = "Sync"
    /\ UNCHANGED <<townVars, now, healthVars, mqVars, slingVars, events,
                   beadsIssues, dirtyIssues, lastTaskUpdate>>

\* syncTasksIncremental called on its own, as the daemon's tests do: on a
\* projection that is still empty, or with lastTaskUpdate set by an earlier
\* incremental sync.
IncrementalTaskSync ==
    /\ syncTick.pc = "idle"
    /\ lastTaskUpdate > 0 \/ tasks = NoTasks
    /\ \E ok \in BOOLEAN :
         LET read == DirtyRead(beadsIssues, dirtyIssues) IN
         IF ~ok
         THEN /\ syncErr' = "dirty_issues table not available"
              /\ UNCHANGED <<tasks, syncTick>>
         ELSE IF read = {}
         THEN /\ syncErr' = ""
              /\ UNCHANGED <<tasks, syncTick>>
         ELSE /\ tasks' = UpsertTasks(tasks, beadsIssues, read, now)
              /\ syncTick' = [pc |-> "clearing", caller |-> "syncTasksIncremental",
                              read |-> read, max |-> MaxUpdateTime(beadsIssues, read)]
              /\ UNCHANGED syncErr
    /\ lastOp' = "syncTasksIncremental"
    /\ UNCHANGED <<townVars, now, healthVars, mqVars, slingVars, projVars,
                   beadsIssues, dirtyIssues, lastTaskUpdate, stateFile, syncLog>>

\* The end of syncTasksIncremental: the dirty set is cleared (a failure is
\* only logged) and lastTaskUpdate is set; a tick then goes on with the
\* agents, the activity and the comments.
ClearDirty ==
    /\ syncTick.pc = "clearing"
    /\ \E clearOk \in BOOLEAN, fail \in AfterTasksFailPoints :
         /\ dirtyIssues' = IF clearOk THEN ClearDirtyIssues(dirtyIssues, syncTick.read)
                           ELSE dirtyIssues
         /\ lastTaskUpdate' = syncTick.max
         /\ incrementalEnabled' = incrementalEnabled
         /\ IF syncTick.caller = "Sync"
            THEN SyncAfterTasks(fail, {})
            ELSE /\ fail = "none"
                 /\ syncErr' = ""
                 /\ UNCHANGED <<activities, lastEventID, stateFile, syncLog>>
    /\ syncTick' = IdleTick
    /\ lastOp' = syncTick.caller
    /\ UNCHANGED <<townVars, now, healthVars, mqVars, slingVars, events, beadsIssues, tasks>>

\* The daemon is started again: New takes the cursors from the state file.
New ==
    /\ syncTick.pc = "idle"
    /\ lastEventID' = StateField(stateFile, "last_event_id", 0)
    /\ lastTaskUpdate' = StateField(stateFile, "last_task_update", 0)
    /\ incrementalEnabled' = StateField(stateFile, "incremental_enabled", FALSE)
    /\ syncErr' = ""
    /\ lastOp' = "New"
    /\ UNCHANGED <<townVars, now, healthVars, mqVars, slingVars, events, activities,
                   beadsIssues, dirtyIssues, tasks, stateFile, syncTick, syncLog>>

\* The work store creates or changes an issue; every mutation marks the
\* issue dirty.
UpdateIssue ==
    /\ \E i \in EventIssues :
         /\ ~beadsIssues[i].deleted
         /\ beadsIssues' = [beadsIssues EXCEPT ![i] =
                               [exists |-> TRUE, updated_at |-> now, deleted |-> FALSE]]
         /\ dirtyIssues' = dirtyIssues \cup {i}
    /\ lastOp' = "issue"
    /\ UNCHANGED <<townVars, now, healthVars, mqVars, slingVars, projVars,
                   tasks, lastTaskUpdate, stateFile, syncTick, syncLog>>

\* The work store deletes an issue (deleted_at is set).
DeleteIssue ==
    /\ \E i \in EventIssues :
         /\ beadsIssues[i].exists /\ ~beadsIssues[i].deleted
         /\ beadsIssues' = [beadsIssues EXCEPT ![i] =
                               [exists |-> TRUE, updated_at |-> now, deleted |-> TRUE]]
         /\ dirtyIssues' = dirtyIssues \cup {i}
    /\ lastOp' = "delete"
    /\ UNCHANGED <<townVars, now, healthVars, mqVars, slingVars, projVars,
                   tasks, lastTaskUpdate, stateFile, syncTick, syncLog>>

\* syncActivityIncremental called on its own, as the daemon's tests do: on
\* a projection that is still empty, or with lastEventID set by an earlier
\* incremental sync.
IncrementalActivitySync ==
    /\ syncTick.pc = "idle"
    /\ lastEventID > 0 \/ activities = EmptyBag
    /\ \E ok \in BOOLEAN :
         LET inc == syncActivityIncremental(events, activities, lastEventID) IN
         IF ok
         THEN /\ activities' = inc.activities
              /\ lastEventID' = inc.lastEventID
              /\ syncErr' = ""
         ELSE /\ UNCHANGED <<activities, lastEventID>>
              /\ syncErr' = "querying beads events"
    /\ lastOp' = "syncActivityIncremental"
    /\ UNCHANGED <<townVars, now, healthVars, mqVars, slingVars, events, incrementalEnabled, taskVars>>

\* The work store records an event (ids are assigned in order).
AppendEvent ==
    /\ Len(events) < MaxEvents
    /\ \E issue \in EventIssues :
         events' = Append(events, [id |-> Len(events) + 1, issue_id |-> issue,
                                   created_at |-> now])
    /\ lastOp' = "event"
    /\ UNCHANGED <<townVars, now, healthVars, mqVars, slingVars, taskVars,
                   activities, lastEventID, incrementalEnabled, syncErr>>

PassDay ==
    /\ now < MaxDay
    /\ now' = now + 1
    /\ lastOp' = "day"
    /\ UNCHANGED <<townVars, healthVars, mqVars, slingVars, projVars, taskVars>>

(***************************************************************************)
(***************************************************************************)
(* Mail: Router.Send, delivery through the work store and the best-effort  *)
(* notification of the recipient's session.                                *)
(***************************************************************************)
\* An address is kept as the parts that strings.SplitN(address, "/", 2)
\* gives: "mayor/", "r1/t1", "r1/" and "nobody".
MaxMail == 2
Recipients == {<<"mayor", "">>, <<"r1", "t1">>, <<"r1", "">>, <<"nobody">>}

\* addressToSessionID
addressToSessionID(address) ==
    IF address[1] = "mayor" THEN "gt-mayor"
    ELSE IF Len(address) # 2 \/ address[2] = "" THEN ""
    ELSE "gt-" \o address[1] \o "-" \o address[2]

SessionIds == {addressToSessionID(a) : a \in Recipients} \ {""}

NoSend == [to |-> <<>>, err |-> "", notify |-> "none"]

\* No message has been sent.
InitMail ==
    /\ mailbox = [r \in Recipients |-> 0]
    /\ notices = [sid \in SessionIds |-> 0]
    /\ sendResult = NoSend

\* What tmux answers to HasSession, and whether display-message works.
HasSessionAnswers == {"yes", "no", "error"}

\* notifyRecipient: what was done, and the error it returns.
notifyRecipient(to, has, displayOk) ==
    LET sessionID == addressToSessionID(to) IN
    IF sessionID = "" THEN [notify |-> "no session id", err |-> ""]
    ELSE IF has # "yes" THEN [notify |-> "skipped", err |-> ""]
    ELSE IF displayOk THEN [notify |-> "shown", err |-> ""]
    ELSE [notify |-> "failed", err |-> "display-message failed"]

\* How bd message send ends: well, or with an exit status and a text on
\* stderr, or with an exit status alone.
RunOutcomes == {"ok", "stderr", "silent"}

\* The body of Send: the error it returns, whether the message is in the
\* store, and what was done about the notification.
SendAndReportNotice(to, run, has, displayOk) ==
    LET n == notifyRecipient(to, has, displayOk) IN
    IF run = "stderr" THEN [err |-> "bd: delivery failed", stored |-> FALSE, notify |-> "none"]
    ELSE IF run = "silent" THEN [err |-> "sending message", stored |-> FALSE, notify |-> "none"]
    ELSE [err |-> n.err, stored |-> TRUE, notify |-> n.notify]

SendOutcome(to, run, has, displayOk) ==
    LET n == notifyRecipient(to, has, displayOk) IN
    IF run = "stderr" THEN [err |-> "bd: delivery failed", stored |-> FALSE, notify |-> "none"]
    ELSE IF run = "silent" THEN [err |-> "sending message", stored |-> FALSE, notify |-> "none"]
    ELSE [err |-> "", stored |-> TRUE, notify |-> n.notify]

\* Router.Send
Send ==
    /\ \E to \in Recipients, run \in RunOutcomes, has \in HasSessionAnswers,
          displayOk \in BOOLEAN :
         LET o == SendOutcome(to, run, has, displayOk) IN
         /\ mailbox[to] < MaxMail
         /\ mailbox' = IF o.stored THEN [mailbox EXCEPT ![to] = @ + 1] ELSE mailbox
         /\ notices' = IF o.notify = "shown"
                        THEN [notices EXCEPT ![addressToSessionID(to)] = @ + 1]
                        ELSE notices
         /\ sendResult' = [to |-> to, err |-> o.err, notify |-> o.notify]
    /\ lastOp' = "Send"
    /\ UNCHANGED <<now, healthVars, mqVars, slingVars, projVars, taskVars,
                   procVars, loopVars, lifeVars, restVars>>

(***************************************************************************)
(* Worker lifecycle manager: the recovery and cleanup passes of runCycle.  *)
(***************************************************************************)
\* A polecat as polecat.Manager lists it (State, Issue), with its tmux
\* session, its worktree (none, or the one it was given, or a fresh one made
\* by a repair) and the agent_state and cleanup_status of its agent bead.
\* The hook_bead of its agent bead is hookBead.
NoPolecat == [exists |-> FALSE, State |-> "", Issue |-> "", session |-> FALSE,
              worktree |-> "none", agent_state |-> "", cleanup_status |-> ""]
StateDone == "done"
CleanupClean == "clean"
CleanupUnknown == ""
PolecatOrder == <<"t1", "t2">>

\* What one cycle did with a polecat: whether the recovery pass found it
\* stale, how the recovery went, and how the cleanup went.
NoCycleRow == [stale |-> FALSE, recovery |-> "", cleanup |-> ""]
NoCycle == [T \in SlingTargets |-> NoCycleRow]

\* A rig without polecats.
InitLife ==
    /\ polecats = [T \in SlingTargets |-> NoPolecat]
    /\ cycle = NoCycle

\* isStale: work assigned and no tmux session. With a session the agent bead
\* is read, and every path from there returns false.
isStaleWithoutWork(p, beadOk) == ~p.session

isStale(p, beadOk) ==
    IF p.Issue = "" THEN FALSE
    ELSE IF ~p.session THEN TRUE
    ELSE IF ~beadOk THEN FALSE
    ELSE IF p.agent_state = "stuck" \/ p.agent_state = "awaiting-gate" THEN FALSE
    ELSE FALSE

\* The commands of recoverPolecat that can fail, in the order they are run;
\* "state" and "update" are failures that are only logged.
RecoverFaults == {"none", "bead", "repair", "account", "start", "state", "update"}

\* bd update <hook_bead> --status=in_progress
MarkInProgress(iss, w) ==
    IF w \in DOMAIN iss THEN [iss EXCEPT ![w].status = "in_progress"] ELSE iss

\* recoverPolecat for polecat T. st = [polecats, hookBead, issues, rows];
\* the result is the next st.
RecoverPolecat(st, T, fault) ==
    LET p == st.polecats[T]
        hook == IF st.hookBead[T] # "" THEN st.hookBead[T] ELSE p.Issue
        done(st2, how) == [st2 EXCEPT !.rows[T].recovery = how]
        killed == [st EXCEPT !.polecats[T].session = FALSE]
        \* RepairWorktreeWithOptions(name, true, {HookBead: hook})
        repaired == [killed EXCEPT !.polecats[T].worktree = "fresh",
                                   !.hookBead[T] = hook]
        started == [repaired EXCEPT !.polecats[T].session = TRUE]
        working == IF fault = "state" THEN started
                   ELSE [started EXCEPT !.polecats[T].agent_state = "working"]
        updated == IF fault = "update" THEN working
                   ELSE [working EXCEPT !.issues = MarkInProgress(@, hook)]
    IN
    IF fault = "bead" THEN done(st, "reading agent bead")
    ELSE IF hook = "" THEN done(st, "no hook_bead found for recovery")
    ELSE IF fault = "repair" THEN done(killed, "repairing worktree")
    ELSE IF fault = "account" THEN done(repaired, "resolving account")
    ELSE IF fault = "start" THEN done(repaired, "starting session")
    ELSE done(updated, "recovered")

\* checkHealthAndRecover: the loop over the polecats of the rig.
RECURSIVE checkHealthAndRecover(_, _, _)
checkHealthAndRecover(order, st, inp) ==
    IF order = <<>> THEN st
    ELSE LET T == Head(order)
             p == st.polecats[T]
             next == IF p.exists /\ isStale(p, inp[T].fault # "bead")
                     THEN RecoverPolecat([st EXCEPT !.rows[T].stale = TRUE], T,
                                         inp[T].fault)
                     ELSE st
         IN checkHealthAndRecover(Tail(order), next, inp)

\* shouldCleanup
shouldCleanupDone(p, beadOk) == p.State = StateDone

shouldCleanup(p, beadOk) ==
    IF p.State # StateDone THEN FALSE
    ELSE IF p.session THEN FALSE
    ELSE IF ~beadOk THEN FALSE
    ELSE IF p.cleanup_status # CleanupClean /\ p.cleanup_status # CleanupUnknown
    THEN FALSE
    ELSE TRUE

\* cleanupCompleted: the loop over the polecats of the rig. Remove(name,
\* false) removes the polecat with its worktree, or refuses.
RECURSIVE cleanupCompleted(_, _, _)
cleanupCompleted(order, st, inp) ==
    IF order = <<>> THEN st
    ELSE LET T == Head(order)
             p == st.polecats[T]
             next == IF p.exists /\ shouldCleanup(p, inp[T].cleanup # "bead")
                     THEN IF inp[T].cleanup # "remove"
                          THEN [st EXCEPT !.polecats[T] = NoPolecat,
                                          !.rows[T].cleanup = "removed"]
                          ELSE [st EXCEPT !.rows[T].cleanup = "remove failed"]
                     ELSE st
         IN cleanupCompleted(Tail(order), next, inp)

\* What the environment decides for one polecat in one cycle: the command
\* that fails in the recovery pass (an unreadable agent bead is unreadable
\* for isStale as well) and the one that fails in the cleanup pass.
CleanupFaults == {"none", "bead", "remove"}
CycleInputs == [fault : RecoverFaults, cleanup : CleanupFaults]

\* runCycle: the recovery pass, then the cleanup pass.
runCycle ==
    /\ \E inp \in [SlingTargets -> CycleInputs] :
         LET st0 == [polecats |-> polecats, hookBead |-> hookBead,
                     issues |-> issues, rows |-> NoCycle]
             st1 == checkHealthAndRecover(PolecatOrder, st0, inp)
             st2 == cleanupCompleted(PolecatOrder, st1, inp)
         IN /\ polecats' = st2.polecats
            /\ hookBead' = st2.hookBead
            /\ issues' = st2.issues
            /\ cycle' = st2.rows
    /\ lastOp' = "runCycle"
    /\ UNCHANGED <<now, agents, results, engine, mqVars, sling, convoys, projVars, taskVars,
                   procVars, loopVars, mailVars, restVars>>

\* The tmux session of a polecat ends (a crash, or the worker exits).
SessionEnds(T) ==
    /\ polecats[T].exists /\ polecats[T].session
    /\ polecats' = [polecats EXCEPT ![T].session = FALSE]
    /\ lastOp' = "session"
    /\ UNCHANGED <<now, healthVars, mqVars, slingVars, projVars, taskVars,
                   procVars, loopVars, mailVars, restVars, cycle>>

\* A worker with a session writes its agent_state, or reports that it is
\* done, with the cleanup_status it has found.
AgentStates == {"working", "stuck", "awaiting-gate"}
CleanupStatuses == {CleanupUnknown, CleanupClean, "has_uncommitted"}
WorkerReports(T) ==
    /\ polecats[T].exists /\ polecats[T].session /\ polecats[T].State # StateDone
    /\ \/ \E a \in AgentStates : polecats' = [polecats EXCEPT ![T].agent_state = a]
       \/ \E c \in CleanupStatuses :
             polecats' = [polecats EXCEPT ![T].State = StateDone, ![T].Issue = "",
                                          ![T].agent_state = "done",
                                          ![T].cleanup_status = c]
    /\ lastOp' = "report"
    /\ UNCHANGED <<now, healthVars, mqVars, slingVars, projVars, taskVars,
                   procVars, loopVars, mailVars, restVars, cycle>>

(***************************************************************************)
(* The supervisory loops: Run of the lifecycle manager, of the refinery's  *)
(* Engineer and of the projection daemon. A tick is taken as a whole here; *)
(* what is modelled is when a tick starts and when Run returns.            *)
(***************************************************************************)
Loops == {"lifecycle", "refinery", "projection"}

\* Each Run begins with a tick: runCycle, processOnce, the initial Sync.
\* try: the attempts left for the projection daemon's initial sync.
initialSyncRetries == 3
StartedLoop(l) == [pc |-> "tick", initial |-> TRUE, cancelled |-> FALSE,
                   stopped |-> FALSE, ticker |-> FALSE,
                   try |-> IF l = "projection" THEN initialSyncRetries ELSE 1]
InitLoops == loops = [l \in Loops |-> StartedLoop(l)]

\* ticker.C holds one tick at most; a tick that finds it full is dropped.
TickerFires(l) ==
    /\ loops[l].pc # "exited"
    /\ ~loops[l].ticker
    /\ loops' = [loops EXCEPT ![l].ticker = TRUE]
    /\ lastOp' = "ticker"
    /\ UNCHANGED <<now, healthVars, mqVars, slingVars, projVars, taskVars,
                   procVars, lifeVars, mailVars, restVars>>

\* The context of the loop is cancelled (for the projection daemon: Stop).
CancelContext(l) ==
    /\ loops[l].pc # "exited"
    /\ ~loops[l].cancelled
    /\ loops' = [loops EXCEPT ![l].cancelled = TRUE]
    /\ lastOp' = "cancel"
    /\ UNCHANGED <<now, healthVars, mqVars, slingVars, projVars, taskVars,
                   procVars, lifeVars, mailVars, restVars>>

\* Engineer.Stop: close(stopCh)
Stop ==
    /\ loops["refinery"].pc # "exited"
    /\ ~loops["refinery"].stopped
    /\ loops' = [loops EXCEPT !["refinery"].stopped = TRUE]
    /\ lastOp' = "stop"
    /\ UNCHANGED <<now, healthVars, mqVars, slingVars, projVars, taskVars,
                   procVars, lifeVars, mailVars, restVars>>

\* The tick in flight returns. The initial Sync of the projection daemon is
\* tried again after a sleep when it fails, and Run returns an error when
\* the last try fails; every other tick leads to the select.
TickReturns(l) ==
    /\ loops[l].pc = "tick"
    /\ \E ok \in BOOLEAN :
         loops' = [loops EXCEPT ![l] =
             IF l = "projection" /\ @.initial /\ ~ok
             THEN IF @.try > 1 THEN [@ EXCEPT !.pc = "backoff", !.try = @ - 1]
                  ELSE [@ EXCEPT !.pc = "exited"]
             ELSE [@ EXCEPT !.pc = "select", !.initial = FALSE]]
    /\ lastOp' = "tick"
    /\ UNCHANGED <<now, healthVars, mqVars, slingVars, projVars, taskVars,
                   procVars, lifeVars, mailVars, restVars>>

\* The sleep between two tries of the initial Sync is over.
RetryInitialSync ==
    /\ loops["projection"].pc = "backoff"
    /\ loops' = [loops EXCEPT !["projection"].pc = "tick"]
    /\ lastOp' = "retry"
    /\ UNCHANGED <<now, healthVars, mqVars, slingVars, projVars, taskVars,
                   procVars, lifeVars, mailVars, restVars>>

\* processOnce returns at once when it is entered with a cancelled context;
\* runCycle and Sync do not look at the context.
EntryCheck(l) == l = "refinery"

\* select takes the case of the ticker, which it can do whenever ticker.C
\* holds a tick, whatever the other cases: a select with several ready cases
\* takes any one of them.
SelectTicker(l) ==
    /\ loops[l].pc = "select"
    /\ loops[l].ticker
    /\ loops' = [loops EXCEPT ![l] =
                    IF EntryCheck(l) /\ @.cancelled
                    THEN [@ EXCEPT !.ticker = FALSE]
                    ELSE [@ EXCEPT !.ticker = FALSE, !.pc = "tick"]]
    /\ lastOp' = "select"
    /\ UNCHANGED <<now, healthVars, mqVars, slingVars, projVars, taskVars,
                   procVars, lifeVars, mailVars, restVars>>

\* select takes the case of ctx.Done() or of stopCh: Run returns.
SelectDone(l) ==
    /\ loops[l].pc = "select"
    /\ loops[l].cancelled \/ loops[l].stopped
    /\ loops' = [loops EXCEPT ![l].pc = "exited"]
    /\ lastOp' = "select"
    /\ UNCHANGED <<now, healthVars, mqVars, slingVars, projVars, taskVars,
                   procVars, lifeVars, mailVars, restVars>>

(* Projection daemon: the gt projection-daemon start, run and stop         *)
(* commands and the pid file.                                              *)
(***************************************************************************)

\* bound: the process ids the system hands out
MaxPid == 3
Pids == 1..MaxPid
NoPid == 0
Starters == {"c1", "c2"}

IdleStart == [pc |-> "idle", err |-> ""]

\* No daemon, no pid file, no start command under way.
InitProcs ==
    /\ daemons = {}
    /\ pidFile = NoPid
    /\ starts = [c \in Starters |-> IdleStart]

(***************************************************************************)
(* Package beads: the validators of typed fields.                          *)
(***************************************************************************)
minTimeout == 60
maxTimeout == 3600
\* bound: the timeouts tried are -MaxProbe .. MaxProbe
MaxProbe == 3700

\* ValidateHeartbeatTimeout: the error it returns ("": nil)
ValidateHeartbeatTimeoutOpen(timeoutSec) ==
    IF timeoutSec <= minTimeout THEN "too short"
    ELSE IF timeoutSec >= maxTimeout THEN "too long"
    ELSE ""

ValidateHeartbeatTimeout(timeoutSec) ==
    IF timeoutSec < minTimeout THEN "too short"
    ELSE IF timeoutSec > maxTimeout THEN "too long"
    ELSE ""

ConvoyStagePlanning == "planning"
ConvoyStageExecution == "execution"
ConvoyStageReview == "review"
ConvoyStageComplete == "complete"
validStages == {ConvoyStagePlanning, ConvoyStageExecution, ConvoyStageReview,
                ConvoyStageComplete}
\* The stages tried: the valid ones, the empty string, and two other strings.
StageInputs == validStages \cup {"", "Planning", "done"}

\* ValidateConvoyStage
ValidateConvoyStage(stage) ==
    IF stage \notin validStages THEN "invalid convoy stage" ELSE ""

\* stageOrder; a missing key of a Go map reads as 0
stageOrder(stage) ==
    CASE stage = ConvoyStagePlanning -> 1
      [] stage = ConvoyStageExecution -> 2
      [] stage = ConvoyStageReview -> 3
      [] stage = ConvoyStageComplete -> 4
      [] OTHER -> 0

\* ValidateConvoyStageTransition
ValidateConvoyStageTransitionOrSame(currentStage, newStage) ==
    IF ValidateConvoyStage(currentStage) # ""
    THEN "current stage: " \o ValidateConvoyStage(currentStage)
    ELSE IF ValidateConvoyStage(newStage) # ""
    THEN "new stage: " \o ValidateConvoyStage(newStage)
    ELSE IF stageOrder(newStage) < stageOrder(currentStage)
    THEN "invalid stage transition"
    ELSE ""

ValidateConvoyStageTransition(currentStage, newStage) ==
    IF ValidateConvoyStage(currentStage) # ""
    THEN "current stage: " \o ValidateConvoyStage(currentStage)
    ELSE IF ValidateConvoyStage(newStage) # ""
    THEN "new stage: " \o ValidateConvoyStage(newStage)
    ELSE IF stageOrder(newStage) <= stageOrder(currentStage)
    THEN "invalid stage transition"
    ELSE ""

\* ValidateConvoyStageTransitionWithReopening
ValidateConvoyStageTransitionWithReopening(currentStage, newStage) ==
    IF currentStage = ConvoyStageComplete /\ newStage = ConvoyStagePlanning THEN ""
    ELSE ValidateConvoyStageTransition(currentStage, newStage)

\* A call that has not been made, and one that has not returned.
NoValidation == [fn |-> "", args |-> <<>>, err |-> ""]
Pending == "pending"
PendingCalls ==
    {[fn |-> "ValidateHeartbeatTimeout", args |-> <<t>>, err |-> Pending] :
        t \in (0 - MaxProbe)..MaxProbe}
    \cup {[fn |-> f, args |-> <<c, n>>, err |-> Pending] :
             f \in {"ValidateConvoyStageTransition",
                    "ValidateConvoyStageTransitionWithReopening"},
             c \in StageInputs, n \in StageInputs}
IsPending(f) == validation.fn = f /\ validation.err = Pending

\* The call of ValidateHeartbeatTimeout returns.
CallValidateHeartbeatTimeout ==
    /\ IsPending("ValidateHeartbeatTimeout")
    /\ validation' = [validation EXCEPT
                         !.err = ValidateHeartbeatTimeout(validation.args[1])]
    /\ lastOp' = "validate"
    /\ UNCHANGED <<now, healthVars, mqVars, slingVars, projVars, taskVars,
                   procVars, loopVars, lifeVars, mailVars, molecules, seedResult,
                   raceVars>>

\* The call of ValidateConvoyStageTransition returns, without or with
\* reopening.
CallValidateConvoyStageTransition ==
    /\ IsPending("ValidateConvoyStageTransition")
    /\ validation' = [validation EXCEPT
                         !.err = ValidateConvoyStageTransition(validation.args[1],
                                                               validation.args[2])]
    /\ lastOp' = "validate"
    /\ UNCHANGED <<now, healthVars, mqVars, slingVars, projVars, taskVars,
                   procVars, loopVars, lifeVars, mailVars, molecules, seedResult,
                   raceVars>>

CallValidateConvoyStageTransitionWithReopening ==
    /\ IsPending("ValidateConvoyStageTransitionWithReopening")
    /\ validation' = [validation EXCEPT
                         !.err = ValidateConvoyStageTransitionWithReopening(
                                     validation.args[1], validation.args[2])]
    /\ lastOp' = "validate"
    /\ UNCHANGED <<now, healthVars, mqVars, slingVars, projVars, taskVars,
                   procVars, loopVars, lifeVars, mailVars, molecules, seedResult,
                   raceVars>>

(***************************************************************************)
(* Package beads: the built-in molecules and their seeding.                *)
(***************************************************************************)
\* BuiltinMolecules, by title
BuiltinMolecules == <<"Engineer in a Box", "Quick Fix", "Research", "Install Go Binary">>
MoleculeTitles == {BuiltinMolecules[i] : i \in DOMAIN BuiltinMolecules}
\* bound: molecule beads with the same title
MaxCopies == 2

\* `again` tells that the operation before this run was a run that returned
\* without error.
NoSeed == [created |-> 0, err |-> "", again |-> FALSE]

\* An empty work store.
InitMolecules ==
    /\ molecules = [t \in MoleculeTitles |-> 0]
    /\ seedResult = NoSeed

\* b.List(ListOptions{Type: "molecule"}), then the map of the titles
ExistingTitles(store) == {t \in MoleculeTitles : store[t] > 0}

\* The loop of SeedBuiltinMolecules from the i-th molecule on; the failAt-th
\* Create of the run fails (0: none does).
RECURSIVE SeedLoopAll(_, _, _, _, _)
SeedLoopAll(i, store, existingTitles, created, failAt) ==
    IF i > Len(BuiltinMolecules) THEN [store |-> store, created |-> created, err |-> ""]
    ELSE IF failAt = created + 1
    THEN [store |-> store, created |-> created, err |-> "create failed"]
    ELSE SeedLoopAll(i + 1, [store EXCEPT ![BuiltinMolecules[i]] = @ + 1],
                     existingTitles, created + 1, failAt)

RECURSIVE SeedLoop(_, _, _, _, _)
SeedLoop(i, store, existingTitles, created, failAt) ==
    IF i > Len(BuiltinMolecules) THEN [store |-> store, created |-> created, err |-> ""]
    ELSE IF BuiltinMolecules[i] \in existingTitles
    THEN SeedLoop(i + 1, store, existingTitles, created, failAt)
    ELSE IF failAt = created + 1
    THEN [store |-> store, created |-> created, err |-> "create failed"]
    ELSE SeedLoop(i + 1, [store EXCEPT ![BuiltinMolecules[i]] = @ + 1],
                  existingTitles, created + 1, failAt)

\* SeedBuiltinMolecules
SeedBuiltinMolecules ==
    /\ \E listOk \in BOOLEAN, failAt \in 0..Len(BuiltinMolecules) :
         LET out == IF ~listOk
                    THEN [store |-> molecules, created |-> 0, err |-> "list failed"]
                    ELSE SeedLoop(1, molecules, ExistingTitles(molecules), 0, failAt)
         IN /\ \A t \in MoleculeTitles : out.store[t] <= MaxCopies
            /\ molecules' = out.store
            /\ seedResult' = [created |-> out.created, err |-> out.err,
                              again |-> lastOp = "SeedBuiltinMolecules"
                                        /\ seedResult.err = ""]
    /\ lastOp' = "SeedBuiltinMolecules"
    /\ UNCHANGED <<now, healthVars, mqVars, slingVars, projVars, taskVars,
                   procVars, loopVars, lifeVars, mailVars, validation, raceVars>>

\* A user creates a molecule bead by hand, or deletes one.
bdCreateMolecule ==
    /\ \E t \in MoleculeTitles :
         /\ molecules[t] < MaxCopies
         /\ molecules' = [molecules EXCEPT ![t] = @ + 1]
    /\ lastOp' = "bd create"
    /\ UNCHANGED <<now, healthVars, mqVars, slingVars, projVars, taskVars,
                   procVars, loopVars, lifeVars, mailVars, validation, seedResult,
                   raceVars>>

bdDeleteMolecule ==
    /\ \E t \in MoleculeTitles :
         /\ molecules[t] > 0
         /\ molecules' = [molecules EXCEPT ![t] = @ - 1]
    /\ lastOp' = "bd delete"
    /\ UNCHANGED <<now, healthVars, mqVars, slingVars, projVars, taskVars,
                   procVars, loopVars, lifeVars, mailVars, validation, seedResult,
                   raceVars>>

\* No validator was called, the store holds no molecule, and the rig's
\* refinery instances are between two ticks.
InitRest ==
    /\ validation = NoValidation
    /\ InitMolecules
    /\ InitEngineers

InitTown ==
    /\ InitProcs
    /\ InitLoops
    /\ InitLife
    /\ InitMail
    /\ InitRest

\* processExists(pid)
processExists(pid) == pid \in daemons

\* IsRunning: whether the pid file names a live process; a pid file that
\* names a dead one is removed. The result is the answer and the pid file
\* after the call.
IsRunning(file) ==
    IF file = NoPid THEN [running |-> FALSE, pid |-> 0, file |-> file]
    ELSE IF processExists(file) THEN [running |-> TRUE, pid |-> file, file |-> file]
    ELSE [running |-> FALSE, pid |-> 0, file |-> NoPid]

\* runProjectionDaemonRun: New and Run in a process of its own. The process
\* is alive from the moment it is started.
runProjectionDaemonRun ==
    /\ \E p \in Pids \ daemons : daemons' = daemons \cup {p}
    /\ lastOp' = "run"
    /\ UNCHANGED <<now, healthVars, mqVars, slingVars, projVars, taskVars, loopVars, lifeVars, mailVars, restVars, pidFile, starts>>

\* runProjectionDaemonStart up to the sleep: the check of the pid file and
\* the start of the run command in the background.
StartSpawn(c) ==
    /\ starts[c].pc = "idle"
    /\ LET r == IsRunning(pidFile) IN
       /\ pidFile' = r.file
       /\ IF r.running
          THEN /\ starts' = [starts EXCEPT ![c] = [pc |-> "done", err |-> "daemon already running"]]
               /\ UNCHANGED daemons
          ELSE \E execOk \in BOOLEAN :
                 IF execOk /\ Pids \ daemons # {}
                 THEN /\ \E p \in Pids \ daemons : daemons' = daemons \cup {p}
                      /\ starts' = [starts EXCEPT ![c] = [pc |-> "spawned", err |-> ""]]
                 ELSE /\ starts' = [starts EXCEPT ![c] = [pc |-> "done", err |-> "starting daemon"]]
                      /\ UNCHANGED daemons
    /\ lastOp' = "start"
    /\ UNCHANGED <<now, healthVars, mqVars, slingVars, projVars, taskVars, loopVars, lifeVars, mailVars, restVars>>

\* runProjectionDaemonStart after the sleep: the second check of the pid file.
StartVerify(c) ==
    /\ starts[c].pc = "spawned"
    /\ LET r == IsRunning(pidFile) IN
       /\ pidFile' = r.file
       /\ starts' = [starts EXCEPT ![c] =
                        [pc |-> "done",
                         err |-> IF r.running THEN "" ELSE "daemon failed to start"]]
    /\ lastOp' = "start"
    /\ UNCHANGED <<now, healthVars, mqVars, slingVars, projVars, taskVars, loopVars, lifeVars, mailVars, restVars, daemons>>

\* The command returns; it can be given again.
StartReturn(c) ==
    /\ starts[c].pc = "done"
    /\ starts' = [starts EXCEPT ![c] = IdleStart]
    /\ lastOp' = "return"
    /\ UNCHANGED <<now, healthVars, mqVars, slingVars, projVars, taskVars, loopVars, lifeVars, mailVars, restVars, daemons, pidFile>>

\* runProjectionDaemonStop and StopDaemon: SIGTERM to the process the pid
\* file names, and the removal of the pid file.
StopDaemon ==
    /\ LET r == IsRunning(pidFile) IN
       IF r.running
       THEN /\ daemons' = daemons \ {r.pid}
            /\ pidFile' = NoPid
       ELSE /\ pidFile' = r.file
            /\ UNCHANGED daemons
    /\ lastOp' = "stop"
    /\ UNCHANGED <<now, healthVars, mqVars, slingVars, projVars, taskVars, loopVars, lifeVars, mailVars, restVars, starts>>

\* Run returns (the initial sync failed three times) or the process is
\* killed: the process is gone, the files stay.
DaemonExit ==
    /\ \E p \in daemons : daemons' = daemons \ {p}
    /\ lastOp' = "exit"
    /\ UNCHANGED <<now, healthVars, mqVars, slingVars, projVars, taskVars, loopVars, lifeVars, mailVars, restVars, pidFile, starts>>

vars == <<now, lastOp, agents, issues, results, engine, mrs, epic, gitLocal, gitOrigin, mqResult,
          sling, hookBead, convoys,
          events, activities, lastEventID, incrementalEnabled, syncErr,
          beadsIssues, dirtyIssues, tasks, lastTaskUpdate, stateFile, syncTick, syncLog,
          daemons, pidFile, starts, loops, polecats, cycle, mailbox, notices, sendResult,
          validation, molecules, seedResult, engineers>>

\* Two workers spawned at time 0, one with the shortest heartbeat timeout of
\* the model and one with the longest.
InitTimeout == [a \in AgentIds |-> IF a = "a1" THEN 1 ELSE MaxTimeout]
InitAgents ==
    agents = [a \in AgentIds |-> [status |-> "open",
                                  health |-> HealthHealthy,
                                  lifecycle_state |-> "working",
                                  last_heartbeat |-> 0,
                                  heartbeat_timeout |-> InitTimeout[a],
                                  assigned_work |-> ""]]

InitIssues ==
    issues \in [WorkIds -> {[status |-> "open", assignee |-> ""],
                            [status |-> "in_progress", assignee |-> "a1"],
                            [status |-> "blocked", assignee |-> "a1"],
                            [status |-> "closed", assignee |-> "a1"]}]

\* A rig whose main is in step with origin, no integration branch and an
\* empty merge queue.
InitMq ==
    /\ mrs = [m \in MrIds |-> NoMR]
    /\ epic = "none"
    /\ gitLocal = [t \in Targets |-> IF t = MainBranch THEN <<RootCommit>> ELSE <<>>]
    /\ gitOrigin = gitLocal
    /\ mqResult = NoMqResult

\* A daemon made by New without persisted state, before its first tick.
InitProjection ==
    /\ events = <<>>
    /\ activities = EmptyBag
    /\ lastEventID = 0
    /\ incrementalEnabled = FALSE
    /\ syncErr = ""
    /\ beadsIssues = [i \in EventIssues |-> NoIssue]
    /\ dirtyIssues = {}
    /\ tasks = NoTasks
    /\ lastTaskUpdate = 0
    /\ stateFile = <<>>
    /\ syncTick = IdleTick
    /\ syncLog = {}

\* No sling has been started.
InitSlingers ==
    /\ sling = [s \in Slingers |-> IdleSling]
    /\ hookBead = [T \in SlingTargets |-> ""]
    /\ convoys = {}

Init ==
    /\ now = 0
    /\ lastOp = "init"
    /\ InitAgents
    /\ InitIssues
    /\ results = NoResults
    /\ engine = IdleEngine
    /\ InitMq
    /\ InitSlingers
    /\ InitProjection
    /\ InitTown

NextHealth == CheckWorkerHealth \/ runHeartbeat \/ AdvanceClock

SpecHealth == Init /\ [][NextHealth]_vars

\* The engine's ticker keeps firing, and the work store does not fail for
\* ever: a tick in which no command fails is taken again and again.
CleanTick ==
    /\ CheckWorkerHealth
    /\ results'.err = ""
    /\ \A a \in AgentIds : results'.rows[a].error = ""

SpecHealthFair == Init /\ [][NextHealth]_vars /\ WF_vars(CleanTick)

\* The health engine and the workers' heartbeats as concurrent processes.
NextBeat == ListAgents \/ CheckNextAgent \/ runHeartbeat \/ AdvanceClock

\* Two workers that were spawned, and sent their first heartbeat, two time
\* units before the end of the model's time; the first one is working on w1.
BeatStart == MaxNow - 2
InitBeat ==
    /\ now = BeatStart
    /\ lastOp = "init"
    /\ agents = [a \in AgentIds |-> [status |-> "open",
                                     health |-> HealthHealthy,
                                     lifecycle_state |-> "working",
                                     last_heartbeat |-> BeatStart,
                                     heartbeat_timeout |-> InitTimeout[a],
                                     assigned_work |-> ""]]
    /\ issues = [w \in WorkIds |-> [status |-> "in_progress", assignee |-> "a1"]]
    /\ results = NoResults
    /\ engine = IdleEngine
    /\ InitMq
    /\ InitSlingers
    /\ InitProjection
    /\ InitTown

SpecBeat == InitBeat /\ [][NextBeat]_vars

\* The health engine over agent beads whose heartbeat fields may be absent or
\* may not parse: every open agent has a last_heartbeat that is absent, bad
\* or the present time, and a heartbeat_timeout that is absent, bad or its own.
InitFields ==
    /\ now = BeatStart
    /\ lastOp = "init"
    /\ agents \in {[a \in AgentIds |-> [status |-> "open",
                                         health |-> HealthHealthy,
                                         lifecycle_state |-> "working",
                                         last_heartbeat |-> lh[a],
                                         heartbeat_timeout |-> to[a],
                                         assigned_work |-> ""]] :
                       lh \in [AgentIds -> {NoValue, BadValue, BeatStart}],
                       to \in {f \in [AgentIds -> {NoValue, BadValue} \cup 1..MaxTimeout] :
                                  \A a \in AgentIds :
                                      f[a] \in {NoValue, BadValue, InitTimeout[a]}}}
    /\ issues = [w \in WorkIds |-> [status |-> "in_progress", assignee |-> "a1"]]
    /\ results = NoResults
    /\ engine = IdleEngine
    /\ InitMq
    /\ InitSlingers
    /\ InitProjection
    /\ InitTown

SpecFields == InitFields /\ [][NextHealth]_vars

\* A rig with two polecats. The first one is working on w1, in any agent
\* state, with or without a session and with or without the hook_bead on
\* its agent bead; w1 is in any status. The second one has just been spawned
\* without work.
WorkingPolecat(sess, st) ==
    [exists |-> TRUE, State |-> "working", Issue |-> "w1", session |-> sess,
     worktree |-> "given", agent_state |-> st, cleanup_status |-> CleanupUnknown]
IdlePolecat ==
    [exists |-> TRUE, State |-> "working", Issue |-> "", session |-> TRUE,
     worktree |-> "given", agent_state |-> "working", cleanup_status |-> CleanupUnknown]
IssueStatuses == {"open", "hooked", "in_progress", "blocked", "closed"}
InitCycle ==
    /\ now = 0
    /\ lastOp = "init"
    /\ InitAgents
    /\ issues \in [WorkIds -> {[status |-> x, assignee |-> "t1"] : x \in IssueStatuses}]
    /\ results = NoResults
    /\ engine = IdleEngine
    /\ InitMq
    /\ sling = [s \in Slingers |-> IdleSling]
    /\ hookBead \in {[T \in SlingTargets |-> IF T = "t1" THEN h ELSE ""] : h \in {"", "w1"}}
    /\ convoys = {}
    /\ InitProjection
    /\ InitProcs
    /\ InitLoops
    /\ InitMail
    /\ InitRest
    /\ polecats \in {[T \in SlingTargets |-> IF T = "t1" THEN WorkingPolecat(sess, st)
                                              ELSE IdlePolecat] :
                         sess \in BOOLEAN, st \in AgentStates}
    /\ cycle = NoCycle

NextCycle ==
    \/ runCycle
    \/ \E T \in SlingTargets : SessionEnds(T) \/ WorkerReports(T)

SpecCycle == InitCycle /\ [][NextCycle]_vars

\* The three loops, their tickers and the requests to stop them.
NextLoops ==
    \/ \E l \in Loops : TickerFires(l) \/ CancelContext(l) \/ TickReturns(l)
    \/ \E l \in Loops : SelectTicker(l) \/ SelectDone(l)
    \/ Stop
    \/ RetryInitialSync

InitSupervised == Init /\ issues = [w \in WorkIds |-> [status |-> "open", assignee |-> ""]]

SpecLoops == InitSupervised /\ [][NextLoops]_vars

\* A router used by the town's agents.
NextMail == Send

SpecMail == InitSupervised /\ [][NextMail]_vars

\* The projection daemon's commands, given by two users at the same time, in
\* a town whose daemon directory may hold the pid file of an earlier daemon.
NextDaemon ==
    \/ runProjectionDaemonRun
    \/ \E c \in Starters : StartSpawn(c) \/ StartVerify(c) \/ StartReturn(c)
    \/ StopDaemon
    \/ DaemonExit

InitDaemon ==
    /\ now = 0
    /\ lastOp = "init"
    /\ InitAgents
    /\ issues = [w \in WorkIds |-> [status |-> "open", assignee |-> ""]]
    /\ results = NoResults
    /\ engine = IdleEngine
    /\ InitMq
    /\ InitSlingers
    /\ InitProjection
    /\ daemons = {}
    /\ pidFile \in {NoPid} \cup Pids
    /\ starts = [c \in Starters |-> IdleStart]
    /\ InitLoops
    /\ InitLife
    /\ InitMail
    /\ InitRest

SpecDaemon == InitDaemon /\ [][NextDaemon]_vars

\* The merge queue of a rig without epics: submissions, the refinery's ticks
\* and pushes by others.
NextMq ==
    \/ runMqSubmit
    \/ bdCreateMR
    \/ processOnce
    \/ ExternalPush

InitQueue == Init /\ issues = [w \in WorkIds |-> [status |-> "open", assignee |-> ""]]

SpecMq == InitQueue /\ [][NextMq]_vars

\* Two refinery instances on one rig.
NextRace ==
    \E e \in Engineers : engineerQuery(e) \/ engineerClaim(e) \/ engineerProcess(e)

\* Two merge requests for main are waiting.
RaceMR(b, p) == [status |-> "open", branch |-> b, target |-> MainBranch,
                 priority |-> p, close_reason |-> <<>>]
InitRace ==
    /\ now = 0
    /\ lastOp = "init"
    /\ InitAgents
    /\ issues = [w \in WorkIds |-> [status |-> "open", assignee |-> ""]]
    /\ results = NoResults
    /\ engine = IdleEngine
    /\ mrs \in {[m \in MrIds |-> IF m = "m1" THEN RaceMR("b1", p1) ELSE RaceMR("b2", p2)] :
                   p1 \in Priorities, p2 \in Priorities}
    /\ epic = "none"
    /\ gitLocal = [t \in Targets |-> IF t = MainBranch THEN <<RootCommit>> ELSE <<>>]
    /\ gitOrigin = gitLocal
    /\ mqResult = NoMqResult
    /\ InitSlingers
    /\ InitProjection
    /\ InitTown

SpecRace == InitRace /\ [][NextRace]_vars

\* The validators of package beads, called with any argument.
NextValidate ==
    \/ CallValidateHeartbeatTimeout
    \/ CallValidateConvoyStageTransition
    \/ CallValidateConvoyStageTransitionWithReopening

InitValidate ==
    /\ now = 0
    /\ lastOp = "init"
    /\ InitAgents
    /\ issues = [w \in WorkIds |-> [status |-> "open", assignee |-> ""]]
    /\ results = NoResults
    /\ engine = IdleEngine
    /\ InitMq
    /\ InitSlingers
    /\ InitProjection
    /\ InitProcs
    /\ InitLoops
    /\ InitLife
    /\ InitMail
    /\ validation \in PendingCalls
    /\ InitMolecules
    /\ InitEngineers

SpecValidate == InitValidate /\ [][NextValidate]_vars

\* A work store that is seeded, while users create and delete molecules.
NextSeed == SeedBuiltinMolecules \/ bdCreateMolecule \/ bdDeleteMolecule

SpecSeed == InitQueue /\ [][NextSeed]_vars

\* A rig with an epic whose integration branch has been created and used:
\* the first merge request targets the integration branch and is waiting,
\* claimed by the refinery, or merged; a second one may exist. The histories
\* are the ones the refinery leaves behind for the merged requests.
LandMR(st, b, t) ==
    [status |-> st, branch |-> b, target |-> t, priority |-> 2,
     close_reason |-> IF st = "closed" THEN <<"merged: ", b>> ELSE <<>>]
LandMRSets ==
    {[m \in MrIds |-> IF m = "m1" THEN LandMR(st1, "b1", IntBranch) ELSE second] :
        st1 \in {"open", "in_progress", "closed"},
        second \in {NoMR} \cup {LandMR(st2, "b2", t) : st2 \in {"open", "closed"},
                                                       t \in Targets}}
MergedInto(ms, t) ==
    LET has(m) == ms[m].status = "closed" /\ ms[m].target = t
    IN <<RootCommit>> \o (IF has("m1") THEN <<ms["m1"].branch>> ELSE <<>>)
                      \o (IF has("m2") THEN <<ms["m2"].branch>> ELSE <<>>)
InitLand ==
    /\ now = 0
    /\ lastOp = "init"
    /\ InitAgents
    /\ issues = [w \in WorkIds |-> [status |-> "open", assignee |-> ""]]
    /\ results = NoResults
    /\ engine = IdleEngine
    /\ mrs \in LandMRSets
    /\ epic = "open"
    /\ gitLocal = [t \in Targets |-> MergedInto(mrs, t)]
    /\ gitOrigin = gitLocal
    /\ mqResult = NoMqResult
    /\ InitSlingers
    /\ InitProjection
    /\ InitTown

NextLand ==
    \/ runMqIntegrationLand
    \/ runMqIntegrationCreate
    \/ runMqSubmit

SpecLand == InitLand /\ [][NextLand]_vars

\* Two sling invocations for a work item that is free, pinned (to a worker or
\* to nobody) or hooked already, next to the recovery of polecats.
InitSling ==
    /\ now = 0
    /\ lastOp = "init"
    /\ InitAgents
    /\ issues \in [WorkIds -> {[status |-> "open", assignee |-> ""],
                               [status |-> "pinned", assignee |-> "t1"],
                               [status |-> "pinned", assignee |-> ""],
                               [status |-> "hooked", assignee |-> "t1"]}]
    /\ results = NoResults
    /\ engine = IdleEngine
    /\ InitMq
    /\ sling = [s \in Slingers |-> IdleSling]
    /\ hookBead = [T \in SlingTargets |->
                      IF \E w \in WorkIds : issues[w] = [status |-> "hooked", assignee |-> T]
                      THEN CHOOSE w \in WorkIds : issues[w].assignee = T
                      ELSE ""]
    /\ convoys = {}
    /\ InitProjection
    /\ InitTown

NextSling ==
    \/ \E s \in Slingers : slingResolve(s)
    \/ \E s \in Slingers : slingGuard(s)
    \/ \E s \in Slingers : slingHook(s)
    \/ \E s \in Slingers : slingMirror(s)
    \/ recoverPolecat

SpecSling == InitSling /\ [][NextSling]_vars

NextProj == Sync \/ IncrementalActivitySync \/ AppendEvent \/ PassDay

\* A fresh daemon next to an empty events table, on day 0.
InitProj == Init /\ issues = [w \in WorkIds |-> [status |-> "open", assignee |-> ""]]

SpecProj == InitProj /\ [][NextProj]_vars

\* The daemon next to a work store whose issues change, started on the day
\* TasksStartDay. The events table holds one event, which leaves the window
\* of the full activity sync on the last day.
TasksStartDay == MaxDay - 2
OldEventDay == TasksStartDay - ActivityWindowDays + 1
InitTasks ==
    /\ now = TasksStartDay
    /\ lastOp = "init"
    /\ InitAgents
    /\ issues = [w \in WorkIds |-> [status |-> "open", assignee |-> ""]]
    /\ results = NoResults
    /\ engine = IdleEngine
    /\ InitMq
    /\ InitSlingers
    /\ events = <<[id |-> 1, issue_id |-> "w1", created_at |-> OldEventDay]>>
    /\ activities = EmptyBag
    /\ lastEventID = 0
    /\ incrementalEnabled = FALSE
    /\ syncErr = ""
    /\ beadsIssues = [i \in EventIssues |-> NoIssue]
    /\ dirtyIssues = {}
    /\ tasks = NoTasks
    /\ lastTaskUpdate = 0
    /\ stateFile = <<>>
    /\ syncTick = IdleTick
    /\ syncLog = {}
    /\ InitTown

NextTasks ==
    \/ Sync
    \/ IncrementalTaskSync
    \/ ClearDirty
    \/ New
    \/ UpdateIssue
    \/ DeleteIssue
    \/ PassDay

SpecTasks == InitTasks /\ [][NextTasks]_vars

\* A projection that is in sync, one day after issue w1 was created and
\* synced: by the first tick of a daemon (a full sync, which leaves the dirty
\* mark), or by an incremental task sync followed by a tick.
InSyncCursors ==
    {[lastTaskUpdate |-> 0, dirtyIssues |-> {"w1"}],
     [lastTaskUpdate |-> unixMillis(TasksStartDay), dirtyIssues |-> {}]}
InitTick ==
    /\ now = TasksStartDay + 1
    /\ lastOp = "init"
    /\ InitAgents
    /\ issues = [w \in WorkIds |-> [status |-> "open", assignee |-> ""]]
    /\ results = NoResults
    /\ engine = IdleEngine
    /\ InitMq
    /\ InitSlingers
    /\ events = <<>>
    /\ activities = EmptyBag
    /\ lastEventID = 0
    /\ incrementalEnabled = TRUE
    /\ syncErr = ""
    /\ beadsIssues = [i \in EventIssues |->
                        IF i = "w1" THEN [exists |-> TRUE, updated_at |-> TasksStartDay,
                                          deleted |-> FALSE]
                        ELSE NoIssue]
    /\ tasks = syncTasks(beadsIssues, TasksStartDay)
    /\ \E c \in InSyncCursors : /\ lastTaskUpdate = c.lastTaskUpdate
                                 /\ dirtyIssues = c.dirtyIssues
    /\ stateFile = SavedState
    /\ syncTick = IdleTick
    /\ syncLog = {}
    /\ InitTown

NextTick ==
    \/ Sync
    \/ ClearDirty
    \/ IncrementalActivitySync
    \/ UpdateIssue
    \/ AppendEvent

SpecTick == InitTick /\ [][NextTick]_vars

(***************************************************************************)
(* Claims about the health engine, checked under SpecHealth.               *)
(***************************************************************************)

\* An open agent bead with a last_heartbeat and a heartbeat_timeout that parse.
HasHeartbeatTracking(a) ==
    /\ agents[a].status = "open"
    /\ agents[a].last_heartbeat \notin {NoValue, BadValue}
    /\ agents[a].heartbeat_timeout \notin {NoValue, BadValue}

\* The class the specification assigns to a heartbeat age.
SpecClass(age, T) ==
    CASE age < T -> HealthHealthy
      [] T <= age /\ age < 2 * T -> HealthStale
      [] 2 * T <= age -> HealthDead

HeartbeatAge(a) == now - agents[a].last_heartbeat

C2_DeadWorkerWorkIsReopened ==
    [][ (lastOp' = "health" /\ results'.err = "") =>
          \A a \in AgentIds : \A w \in WorkIds :
              ( /\ agents[a].health # HealthDead
                /\ agents'[a].health = HealthDead
                /\ results'.rows[a].error = ""
                /\ agents[a].assigned_work = w
                /\ issues[w].status \in {"in_progress", "blocked"} )
              => (issues'[w].status = "open" /\ issues'[w].assignee = "") ]_vars

(***************************************************************************)
(* Claims about the refinery, checked under SpecMq.                        *)
(***************************************************************************)

\* The tick that ran last claimed a merge request and processed it.
Processed == lastOp = "processOnce" /\ mqResult.err = "" /\ mqResult.mr # ""
\* target defaults to the configured target branch
TargetOfMR(m) == IF mrs[m].target = "" THEN MainBranch ELSE mrs[m].target
HeadOf(h) == h[Len(h)]

C5_FailedTickKeepsLocalTarget ==
    [][ ( /\ lastOp' = "processOnce"
          /\ mqResult'.err = ""
          /\ mqResult'.mr # ""
          /\ ~mqResult'.res.Success
          /\ gitOrigin = gitLocal )
        => gitLocal' = gitLocal ]_vars

\* The head of the ready list: the open merge request with the smallest
\* priority number, the oldest among equals.
QueueHead(open) ==
    CHOOSE h \in open : \A o \in open \ {h} :
        \/ mrs[h].priority < mrs[o].priority
        \/ (mrs[h].priority = mrs[o].priority /\ MrIndex(h) < MrIndex(o))

\* C6: a tick that finds no open merge request changes nothing; a tick that
\* finds some touches no merge request but the head of the ready list, the
\* merge request it claims is the head, and it does claim the head when it
\* returns no error.
C6_TickHandlesOnlyTheHead ==
    [][ lastOp' = "processOnce" =>
          LET open == {m \in MrIds : mrs[m].status = "open"} IN
          IF open = {}
          THEN /\ mrs' = mrs
               /\ gitLocal' = gitLocal
               /\ gitOrigin' = gitOrigin
               /\ mqResult'.mr = ""
          ELSE /\ \A m \in MrIds \ {QueueHead(open)} : mrs'[m] = mrs[m]
               /\ mqResult'.mr \in {"", QueueHead(open)}
               /\ mqResult'.err = "" => mqResult'.mr = QueueHead(open) ]_vars

\* C6 witness: with two merge requests ready, a tick has merged and closed the
\* younger one, which has the better priority, and left the older one open.
C6_Witness ==
    /\ Processed
    /\ mqResult.mr = "m2"
    /\ mrs["m2"].status = "closed"
    /\ mrs["m1"].status = "open"
    /\ mrs["m2"].priority < mrs["m1"].priority

(***************************************************************************)
(* Claims about integration land, checked under SpecLand.                  *)
(***************************************************************************)

\* C9: a land without --force that starts while an open merge request targets
\* the integration branch returns an error and changes no branch, locally or
\* on origin (no merge into main, no push, no branch deletion), nor the epic.
C9_LandRefusesOpenMRs ==
    [][ ( /\ lastOp' = "land"
          /\ ~mqResult'.force
          /\ \E m \in MrIds : mrs[m].status = "open" /\ mrs[m].target = IntBranch )
        => ( /\ mqResult'.err # ""
             /\ gitLocal' = gitLocal
             /\ gitOrigin' = gitOrigin
             /\ epic' = epic ) ]_vars

\* C9 witness: a land without --force has been refused because of an open
\* merge request, while the integration branch holds a merged branch.
C9_Witness ==
    /\ lastOp = "land"
    /\ ~mqResult.force
    /\ mqResult.err = "cannot land: open MRs"
    /\ \E m \in MrIds : mrs[m].status = "open" /\ mrs[m].target = IntBranch
    /\ Len(gitOrigin[IntBranch]) > 1
    /\ gitLocal[IntBranch] = gitOrigin[IntBranch]

\* The sling invocation s takes the step that leads from pc from to pc to.
SlingStep(s, from, to) == sling[s].pc = from /\ sling'[s].pc = to

\* C7: sling claims work item W with one update that writes status hooked and
\* assignee T together. Every step that writes W and leaves it hooked is the
\* hook step of one sling invocation and leaves W assigned to that invocation's
\* target, and no other step of a sling invocation writes W: W is never
\* seen hooked with an assignee left over from before the update.
C7_HookIsOneUpdate ==
    [][\A w \in WorkIds :
          /\ (issues'[w] # issues[w] /\ issues'[w].status = "hooked") =>
                 \E s \in Slingers :
                    /\ SlingStep(s, "guarded", "hooked")
                    /\ sling[s].bead = w
                    /\ issues'[w] = [status |-> "hooked", assignee |-> sling[s].target]
          /\ (issues'[w] # issues[w] /\ lastOp' = "sling") =>
                 issues'[w].status = "hooked"]_vars

\* Both invocations have hooked the work item, each for a different target,
\* and the item is hooked to the second one's target.
C7_Witness ==
    /\ \A s \in Slingers : sling[s].pc \in {"hooked", "done"} /\ sling[s].err = <<>>
                            /\ sling[s].info.status \notin {"", "pinned"}
    /\ sling["s1"].target # sling["s2"].target
    /\ sling["s1"].info = [status |-> "hooked", assignee |-> sling["s2"].target]
    /\ \A w \in WorkIds : issues[w] = [status |-> "hooked", assignee |-> sling["s1"].target]

\* C8: when work item W is pinned and force is not set, the pinned check of a
\* sling ends the command with an error and writes nothing to W; when the
\* check could read W, the error names W's assignee ("(unknown)" when W has
\* none).
C8_PinnedIsRefused ==
    [][\A s \in Slingers :
          (/\ sling[s].pc = "resolved" /\ sling'[s].pc # "resolved"
           /\ issues[sling[s].bead].status = "pinned"
           /\ ~sling[s].force)
          => /\ sling'[s].pc = "done"
             /\ sling'[s].err # <<>>
             /\ issues' = issues
             /\ sling'[s].info # NoInfo =>
                   sling'[s].err =
                      <<"bead is already pinned to",
                        IF issues[sling[s].bead].assignee = "" THEN "(unknown)"
                        ELSE issues[sling[s].bead].assignee>>]_vars

\* A sling without force of a work item pinned to t1 has been refused with
\* the error that names t1, and the item is still pinned to t1.
C8_Witness ==
    \E s \in Slingers :
       /\ sling[s].pc = "done"
       /\ ~sling[s].force
       /\ sling[s].info = [status |-> "pinned", assignee |-> "t1"]
       /\ sling[s].err = <<"bead is already pinned to", "t1">>
       /\ issues[sling[s].bead] = [status |-> "pinned", assignee |-> "t1"]

\* The events of the last seven days that would be inserted as row r.
EventsWithRow(r) ==
    {i \in DOMAIN events : /\ ActivityRow(events[i]) = r
                           /\ events[i].created_at >= now - ActivityWindowDays}

\* C10: after every projection sync that returned without error, the
\* activities table holds, for every event recorded in the last seven days,
\* exactly one row with the event's task_id and timestamp: none is missing
\* and none is there twice.
C10_OneRowPerRecentEvent ==
    (lastOp \in {"Sync", "syncActivityIncremental"} /\ syncErr = "") =>
        \A i \in DOMAIN events :
           events[i].created_at >= now - ActivityWindowDays =>
              CopiesIn(ActivityRow(events[i]), activities)
                 = Cardinality(EventsWithRow(ActivityRow(events[i])))

\* A tick that starts and ends in this step has run without error.
WholeTick ==
    /\ syncTick.pc = "idle" /\ syncTick'.pc = "idle"
    /\ lastOp' = "Sync" /\ syncErr' = ""

\* The projection is in sync but for issue i, updated since, and for the two
\* events recorded since.
BehindByOneIssueTwoEvents(i) ==
    /\ dirtyIssues = {i}
    /\ beadsIssues[i].exists
    /\ tasks[i].updated_at # unixMillis(beadsIssues[i].updated_at)
    /\ \A j \in EventIssues \ {i} : tasks[j] = syncTasks(beadsIssues, now)[j]
    /\ Len(events) = 2
    /\ activities = EmptyBag

\* C11: a tick that starts from a projection that is in sync but for one
\* updated issue and two appended events leaves the issue's tasks row with
\* the new updated_at, the two activities rows added, dirty_issues empty and
\* the last_event_id of the state file advanced by 2.
C11_TickCatchesUp ==
    [][\A i \in EventIssues :
          (WholeTick /\ BehindByOneIssueTwoEvents(i)) =>
             /\ tasks'[i].updated_at = unixMillis(beadsIssues[i].updated_at)
             /\ activities' = activities (+) InsertedRows(events, {1, 2})
             /\ dirtyIssues' = {}
             /\ StateField(stateFile', "last_event_id", 0)
                   = StateField(stateFile, "last_event_id", 0) + 2]_vars

\* C12: the clear at the end of an incremental task sync keeps the dirty
\* mark of every issue that the sync has not read: an issue that is not
\* deleted and was marked dirty after the read is still marked after the
\* clear.
C12_ClearKeepsLaterMarks ==
    [][(syncTick.pc = "clearing" /\ syncTick'.pc = "idle") =>
          \A i \in (LiveIssues(beadsIssues) \cap dirtyIssues) \ syncTick.read :
             i \in dirtyIssues']_vars

\* C13: the state file written by a tick holds both cursors with the values
\* the daemon has at the end of the tick, and a daemon that is started again
\* right after such a tick has the cursors of the daemon before it.
C13_CursorsSurviveRestart ==
    [][/\ (lastOp' = "Sync" /\ syncTick'.pc = "idle" /\ syncErr' = ""
                            /\ stateFile' # <<>>) =>
             /\ StateField(stateFile', "last_event_id", NoValue) = lastEventID'
             /\ StateField(stateFile', "last_task_update", NoValue) = lastTaskUpdate'
       /\ (lastOp = "Sync" /\ syncErr = "" /\ lastOp' = "New") =>
             /\ lastEventID' = lastEventID
             /\ lastTaskUpdate' = lastTaskUpdate]_vars

\* The tasks table holds a row for exactly the issues that are not deleted,
\* each with the issue's updated_at.
TasksMatchIssues(tks, iss) ==
    \A i \in EventIssues :
       /\ tks[i].exists = (iss[i].exists /\ ~iss[i].deleted)
       /\ tks[i].exists => tks[i].updated_at = unixMillis(iss[i].updated_at)

\* The daemon is in incremental mode for the task sync.
TasksIncrementalMode == lastTaskUpdate > 0 /\ incrementalEnabled

C15_TickLeavesTheFullProjection ==
    [][WholeTick => TasksMatchIssues(tasks', beadsIssues)]_vars

\* A tick that syncs tasks and activity fully and runs without error.
FullTick ==
    /\ WholeTick
    /\ ~TasksIncrementalMode \/ "tasks" \in syncLog'
    /\ lastEventID = 0 \/ "activity" \in syncLog'

\* The projection is what a full sync of the present issues and events has
\* left at some time up to now.
AfterFullSync ==
    \E t \in 0..now : /\ tasks = syncTasks(beadsIssues, t)
                       /\ activities = syncActivity(events, t)

\* C16 as stated: a full sync that follows a full sync of the same issues
\* and events leaves the tasks and the activities table as they were.
C16_FullSyncIsIdempotent ==
    [][(FullTick /\ AfterFullSync) =>
          (tasks' = tasks /\ activities' = activities)]_vars

\* C16: a full sync that follows a full sync of the same issues and events
\* leaves the same tasks rows but for indexed_at, which is the time of the
\* sync, and the same activities rows but for those of events that are now
\* older than the seven days of the window, which are gone.
C16_FullSyncIsIdempotentButForTime ==
    [][(FullTick /\ AfterFullSync) =>
          /\ \A i \in EventIssues :
                /\ tasks'[i].exists = tasks[i].exists
                /\ tasks'[i].updated_at = tasks[i].updated_at
                /\ tasks'[i].exists => tasks'[i].indexed_at = unixMillis(now)
          /\ \A e \in DOMAIN events :
                CopiesIn(ActivityRow(events[e]), activities') =
                   IF events[e].created_at >= now - ActivityWindowDays
                   THEN CopiesIn(ActivityRow(events[e]), activities)
                   ELSE 0]_vars

\* A full sync has run on the last day, later than the sync that wrote the
\* row of an issue: the row is indexed anew and the old event is gone.
C16_Witness ==
    /\ lastOp = "Sync" /\ syncErr = "" /\ syncLog = {}
    /\ now = MaxDay
    /\ lastTaskUpdate = 0 /\ lastEventID = 0
    /\ \E i \in EventIssues : /\ tasks[i].exists
                               /\ tasks[i].indexed_at = unixMillis(now)
                               /\ tasks[i].updated_at < tasks[i].indexed_at
    /\ activities = EmptyBag

(***************************************************************************)
(* Claims about the health of an agent from tick to tick, checked under    *)
(* SpecHealth.                                                             *)
(***************************************************************************)

HealthRank(h) ==
    CASE h = HealthHealthy -> 0
      [] h = HealthStale -> 1
      [] h = HealthDead -> 2

\* The step moves the stored health of agent a back along healthy, stale, dead.
MovesBack(a) == HealthRank(agents'[a].health) < HealthRank(agents[a].health)

C21_DeadIsWrittenWithCrashed ==
    [][ lastOp' = "health" =>
          \A a \in AgentIds :
              (agents[a].health # HealthDead /\ agents'[a].health = HealthDead) =>
                  agents'[a].lifecycle_state = LifecycleCrashed ]_vars

\* C21 witness: a tick has just moved a working agent to dead and crashed.
C21_Witness ==
    /\ lastOp = "health"
    /\ \E a \in AgentIds :
         /\ results.rows[a].prev \in {HealthHealthy, HealthStale}
         /\ results.rows[a].cur = HealthDead
         /\ results.rows[a].error # "updating agent bead"
         /\ agents[a].health = HealthDead
         /\ agents[a].lifecycle_state = LifecycleCrashed

\* The row of a listed agent after a tick: skipped without heartbeat
\* tracking, a parse error for a field that does not parse, and otherwise
\* the class of the heartbeat age, with the update error if the write failed.
RowIsOwn(a) ==
    LET f == agents[a]
        row == results.rows[a]
    IN
    IF f.last_heartbeat = NoValue \/ f.heartbeat_timeout = NoValue
    THEN row = SkippedRow
    ELSE IF f.last_heartbeat = BadValue
    THEN row = ErrorRow("parsing last_heartbeat")
    ELSE IF f.heartbeat_timeout = BadValue
    THEN row = ErrorRow("parsing heartbeat_timeout")
    ELSE /\ row.cur = SpecClass(HeartbeatAge(a), f.heartbeat_timeout)
         /\ row.error \in {"", "updating agent bead", "reassigning work"}
         /\ row.error # "updating agent bead" => f.health = row.cur
         /\ row.error = "" => row.action # "skipped"

\* C25: a health-engine tick never aborts because of one agent: a parse
\* error or a bead-update error of one agent is recorded in that agent's
\* result row, and every other agent is checked in the same tick as if it
\* were alone.
C25_TickChecksEveryAgent ==
    (lastOp = "health" /\ results.err = "") => \A a \in AgentIds : RowIsOwn(a)

\* C25 witness: in one tick the first agent's last_heartbeat did not parse
\* and the second agent was checked and updated.
C25_Witness ==
    /\ lastOp = "health"
    /\ results.rows["a1"].error = "parsing last_heartbeat"
    /\ results.rows["a2"].action = "updated"
    /\ results.rows["a2"].error = ""

\* An active worker: its agent bead is open and the worker is not dead.
ActiveWorker(a) ==
    /\ agents[a].status = "open"
    /\ agents[a].health # HealthDead
    /\ agents[a].lifecycle_state # LifecycleCrashed

\* C19: at all times, for every active worker whose agent bead has
\* assigned_work set, assigned_work names an existing issue whose assignee is
\* that worker.
C19_AssignedWorkIsAssignedToWorker ==
    \A a \in AgentIds :
        (ActiveWorker(a) /\ agents[a].assigned_work # "") =>
            /\ agents[a].assigned_work \in DOMAIN issues
            /\ issues[agents[a].assigned_work].assignee = a

(***************************************************************************)
(* Claims about heartbeats and the health engine as concurrent processes,  *)
(* checked under SpecBeat.                                                 *)
(***************************************************************************)

\* C17: the last_heartbeat stored on an agent bead never decreases, whatever
\* the interleaving of the workers' heartbeat writes and the health engine's
\* writes to that bead.
C17_LastHeartbeatNeverDecreases ==
    [][ \A a \in AgentIds :
          agents'[a].last_heartbeat >= agents[a].last_heartbeat ]_vars

(***************************************************************************)
(* Claims about the submissions to the merge queue, checked under SpecMq.  *)
(***************************************************************************)

\* The merge requests of the rig for branch b that are not closed.
PendingFor(b) == {m \in MrIds : mrs[m].branch = b /\ mrs[m].status \in {"open", "in_progress"}}

\* C20: at most one merge request per (rig, branch) pair is in a non-terminal
\* status at any time, also after gt mq submit has run twice for the branch.
C20_OnePendingRequestPerBranch ==
    \A b \in Branches : Cardinality(PendingFor(b)) <= 1

(***************************************************************************)
(* Claims about the push of a merged target, checked under SpecMq.         *)
(***************************************************************************)

\* The tick of this step processed a merge request and its push gave up.
PushGaveUp == 
    /\ lastOp' = "processOnce"
    /\ mqResult'.err = ""
    /\ mqResult'.mr # ""
    /\ mqResult'.res.Error = "push failed"

\* After a push that gave up the merge commit is gone from the local target,
\* origin's target is as it was and the merge request did not succeed.
MergeIsReset ==
    LET t == TargetOfMR(mqResult'.mr) IN
    /\ ~mqResult'.res.Success
    /\ gitOrigin' = gitOrigin
    /\ IsPrefix(gitLocal'[t], gitLocal[t]) \/ IsPrefix(gitLocal'[t], gitOrigin[t])

\* The delays of the first n attempts of a push: none before the first,
\* then 1 s, 2 s, 4 s.
Backoff == <<1, 2, 4>>
BackoffOf(n) == SubSeq(Backoff, 1, n - 1)

\* C22 as stated: while processing one merge request the refinery attempts
\* the push at most three times, waiting 1 s before the second attempt and
\* 2 s before the third; if the last attempt fails the merge is reset and
\* the result is a push failure.
C22_PushIsTriedThreeTimes ==
    [][ lastOp' = "processOnce" =>
          /\ mqResult'.attempts <= 3
          /\ mqResult'.attempts >= 1 => mqResult'.slept = BackoffOf(mqResult'.attempts)
          /\ (mqResult'.attempts = 3 /\ ~mqResult'.res.Success) =>
                 (PushGaveUp /\ MergeIsReset) ]_vars

\* C22 amended: the refinery attempts the push at most four times (one
\* attempt and three retries), waiting 1 s, 2 s and 4 s before the second,
\* third and fourth attempt; the push gives up exactly when the fourth
\* attempt has failed, and then the merge is reset and the result is a push
\* failure.
C22_PushIsTriedFourTimes ==
    [][ lastOp' = "processOnce" =>
          /\ mqResult'.attempts <= maxRetries + 1
          /\ mqResult'.attempts >= 1 => mqResult'.slept = BackoffOf(mqResult'.attempts)
          /\ mqResult'.attempts = 0 => mqResult'.slept = <<>>
          /\ (mqResult'.attempts = maxRetries + 1 /\ ~mqResult'.res.Success) =>
                 (PushGaveUp /\ MergeIsReset)
          /\ PushGaveUp => mqResult'.attempts = maxRetries + 1 ]_vars

\* C22 witness: a tick has given up the push after four attempts and has
\* reset the merge, and a merge request is open again.
C22_Witness ==
    /\ Processed
    /\ mqResult.res.Error = "push failed"
    /\ mqResult.attempts = 4
    /\ mqResult.slept = <<1, 2, 4>>
    /\ mrs[mqResult.mr].status = "open"
    /\ gitLocal[TargetOfMR(mqResult.mr)] = gitOrigin[TargetOfMR(mqResult.mr)]

\* C23: with a single serial refinery and two ready merge requests, each of
\* them is processed within two ticks: when a tick has processed M and
\* another merge request has been ready all along, the next tick does not
\* process M again but gives the other one its turn.
C23_WaitIsBoundedByQueueLength ==
    [][ ( /\ Processed
          /\ lastOp' = "processOnce"
          /\ mqResult'.err = ""
          /\ mqResult'.mr # ""
          /\ \E x \in MrIds \ {mqResult.mr} : mrs[x].status = "open" )
        => mqResult'.mr # mqResult.mr ]_vars

(***************************************************************************)
(* Claims about the projection daemon's processes, checked under           *)
(* SpecDaemon.                                                             *)
(***************************************************************************)

\* C24: at most one projection sync daemon runs per town at any time, also
\* when two start commands run concurrently and when the run command is
\* given while a daemon is running.
C24_AtMostOneDaemon == Cardinality(daemons) <= 1

(***************************************************************************)
(* Claims about the supervisory loops, checked under SpecLoops.            *)
(***************************************************************************)

\* Cancellation or shutdown of loop l has been requested.
StopRequested(l) == loops[l].cancelled \/ loops[l].stopped

\* The step starts a tick of loop l.
StartsTick(l) == loops[l].pc # "tick" /\ loops'[l].pc = "tick"

\* C26: once cancellation or shutdown has been requested, a supervisory loop
\* lets the tick in flight return and starts no further tick.
C26_NoTickAfterCancel ==
    [][ \A l \in Loops :
          /\ StopRequested(l) => ~StartsTick(l)
          /\ (loops[l].pc = "tick" /\ loops'[l].pc # "tick") => lastOp' = "tick" ]_vars

\* ---- The lifecycle manager ----

Recovered(T) == lastOp' = "runCycle" /\ cycle'[T].recovery = "recovered"
HookOf(T) == IF hookBead[T] # "" THEN hookBead[T] ELSE polecats[T].Issue

\* C27: a recovery respawns the worker in its workspace, bound to the
\* hook_bead it had, and it changes the status of a work item to in_progress
\* only when the item was hooked.
C27_RecoveryOnlyUnhooks ==
    [][\A T \in SlingTargets : Recovered(T) =>
          /\ polecats'[T].exists /\ polecats'[T].session
          /\ polecats'[T].worktree # "none"
          /\ hookBead'[T] = HookOf(T)
          /\ \A w \in WorkIds : issues'[w].status # issues[w].status =>
                 issues[w].status = "hooked" /\ issues'[w].status = "in_progress"]_vars

Paused(p) == p.agent_state = "stuck" \/ p.agent_state = "awaiting-gate"

\* C28 as stated: an agent whose agent state is stuck or awaiting-gate is
\* never treated as stale and never killed and respawned by the recovery
\* pass, whether or not its session exists.
C28_PausedAgentIsNeverStale ==
    [][lastOp' = "runCycle" =>
          \A T \in SlingTargets : polecats[T].exists /\ Paused(polecats[T]) =>
              ~cycle'[T].stale /\ cycle'[T].recovery = ""]_vars

\* C28 amended: a polecat is treated as stale exactly when it has work and
\* no session, whatever its agent state; one whose session exists, a stuck
\* or awaiting-gate one included, is left as it is by the whole cycle.
C28_StaleIsWorkWithoutSession ==
    [][lastOp' = "runCycle" =>
          \A T \in SlingTargets : polecats[T].exists =>
              /\ cycle'[T].stale <=> (polecats[T].Issue # "" /\ ~polecats[T].session)
              /\ ~cycle'[T].stale => cycle'[T].recovery = ""
              /\ polecats[T].session =>
                    polecats'[T] = polecats[T] /\ cycle'[T] = NoCycleRow]_vars

\* A cycle has passed over a stuck polecat that has work and a session.
C28_Witness ==
    /\ lastOp = "runCycle"
    /\ polecats["t1"].exists /\ polecats["t1"].Issue # ""
    /\ polecats["t1"].agent_state = "stuck" /\ polecats["t1"].session
    /\ ~cycle["t1"].stale

C30_SendFailsIffDeliveryFails ==
    [][lastOp' = "Send" =>
          LET delivered == mailbox' # mailbox IN
          /\ sendResult'.err # "" <=> ~delivered
          /\ sendResult'.notify = "failed" => sendResult'.err = "" /\ delivered
          /\ ~delivered => notices' = notices /\ sendResult'.notify = "none"]_vars

\* A message was delivered, its notification failed, and Send returned nil.
C30_Witness ==
    /\ lastOp = "Send"
    /\ sendResult.notify = "failed" /\ sendResult.err = ""
    /\ mailbox[sendResult.to] > 0

\* ---- Package beads ----

HasReturned(f) == validation.fn = f /\ validation.err # Pending
Accepted == validation.err = ""

\* C31: a stage transition is accepted exactly when both stages are valid
\* and the new one comes strictly later in planning, execution, review,
\* complete; with reopening, exactly those and complete to planning.
StageOrder == <<"planning", "execution", "review", "complete">>
StrictlyLater(c, n) ==
    \E i, j \in DOMAIN StageOrder : StageOrder[i] = c /\ StageOrder[j] = n /\ i < j
C32_TimeoutRange ==
    HasReturned("ValidateHeartbeatTimeout") =>
        (Accepted <=> (60 <= validation.args[1] /\ validation.args[1] <= 3600))

\* The upper edge was accepted.
C32_Witness ==
    /\ validation.fn = "ValidateHeartbeatTimeout"
    /\ validation.args = <<3600>> /\ Accepted

\* C33: a run of SeedBuiltinMolecules right after a run that completed
\* creates nothing and leaves the molecule beads as they were.
C33_SecondSeedCreatesNothing ==
    [][(lastOp = "SeedBuiltinMolecules" /\ seedResult.err = ""
        /\ lastOp' = "SeedBuiltinMolecules") =>
          seedResult'.created = 0 /\ molecules' = molecules]_vars

\* A second run has completed after a first run that created all four.
C33_Witness ==
    /\ lastOp = "SeedBuiltinMolecules"
    /\ seedResult = [created |-> 0, err |-> "", again |-> TRUE]
    /\ \A t \in MoleculeTitles : molecules[t] = 1

\* ---- Merge queue, two instances ----

\* C34: of two refinery instances that saw the same merge request at the
\* head of the ready list, the claim lets at most one go on to merge it.
C34_OneInstanceMerges ==
    \A e1, e2 \in Engineers :
        (e1 # e2 /\ engineers[e1].pc = "claimed" /\ engineers[e2].pc = "claimed")
            => engineers[e1].mr # engineers[e2].mr

\* C35: the refinery pushes only after the merge went through without
\* conflict and the tests, when they are run, passed; a tick whose merge
\* conflicted or failed, or whose tests failed, pushes nothing.
Pushed == mqResult'.attempts > 0 \/ gitOrigin' # gitOrigin
C35_PushOnlyAfterMergeAndTests ==
    [][lastOp' = "processOnce" =>
          /\ Pushed => /\ ~mqResult'.res.Conflict /\ ~mqResult'.res.TestsFailed
                       /\ mqResult'.res.Error \in {"", "push failed"}
          /\ (mqResult'.res.Conflict \/ mqResult'.res.TestsFailed) =>
                 mqResult'.attempts = 0 /\ gitOrigin' = gitOrigin]_vars

\* A merge request was merged and pushed at the first attempt.
C35_Witness ==
    /\ lastOp = "processOnce" /\ mqResult.res.Success /\ mqResult.attempts = 1
    /\ \E m \in MrIds : mqResult.mr = m /\ mrs[m].status = "closed"
                          /\ \E i \in DOMAIN gitOrigin[MainBranch] :
                                gitOrigin[MainBranch][i] = mrs[m].branch

\* C36: a land without --force merges the integration branch into main, or
\* deletes it, only when every merge request that targets it has been
\* merged; one that the refinery has claimed (in_progress) blocks it too.
Landed ==
    \/ gitOrigin' # gitOrigin
    \/ gitLocal'[IntBranch] # gitLocal[IntBranch]
    \/ epic' # epic
C36_LandWaitsForEveryMR ==
    [][(lastOp' = "land" /\ ~mqResult'.force /\ Landed) =>
          \A m \in MrIds : mrs[m].target = IntBranch => mrs[m].status = "closed"]_vars

\* ---- Health engine: the work of a dead worker ----

ResetFailed(a) == lastOp = "health" /\ results.rows[a].error = "reassigning work"
HoldsWork(a) ==
    /\ agents[a].health = HealthDead
    /\ agents[a].assigned_work \in WorkIds
    /\ issues[agents[a].assigned_work].status = "in_progress"

\* C37: when the reset of a dead worker's work has failed in the tick that
\* marked the worker dead, a later tick resets it: the work does not stay
\* in_progress with the dead worker for ever.
C37_FailedResetIsRetried ==
    \A a \in AgentIds : (ResetFailed(a) /\ HoldsWork(a)) ~> ~HoldsWork(a)

\* ---- Sling: two invocations, and the refused one ----

ReturnedNil(s) == sling[s].pc = "done" /\ sling[s].err = <<>>

\* C38: when two slings of the same work item to two different targets have
\* both finished, only the agent bead of the target that the work item is
\* assigned to carries it as hook_bead.
C38_OneTargetHoldsTheWork ==
    \A s1, s2 \in Slingers :
        ( /\ s1 # s2 /\ ReturnedNil(s1) /\ ReturnedNil(s2)
          /\ sling[s1].bead = sling[s2].bead
          /\ sling[s1].target # sling[s2].target )
        => \A T \in SlingTargets :
               hookBead[T] = sling[s1].bead => issues[sling[s1].bead].assignee = T

RefusedAsPinned(s) ==
    /\ sling[s].pc = "done" /\ sling[s].err # <<>>
    /\ sling[s].err[1] = "bead is already pinned to"

\* C39: a sling refused because the work item is pinned has no side effect:
\* when it is the only sling that has run, no agent bead carries a hook_bead
\* (no polecat was spawned for the work) and no convoy exists.
C39_RefusedSlingChangesNothing ==
    \A s \in Slingers :
        (RefusedAsPinned(s) /\ \A s2 \in Slingers \ {s} : sling[s2].pc = "idle")
            => /\ \A T \in SlingTargets : hookBead[T] = ""
               /\ convoys = {}

\* ---- Heartbeat ----

\* C40: a heartbeat that names no work leaves assigned_work as it is, so no
\* heartbeat ever takes the assigned work off an agent bead.
C40_HeartbeatKeepsAssignedWork ==
    [][lastOp' = "heartbeat" =>
          \A a \in AgentIds :
              agents[a].assigned_work # "" => agents'[a].assigned_work # ""]_vars
====
